----------------------------- MODULE LockMgrWaits -----------------------------
(***************************************************************************)
(* Nobody waits in vain: no request that could be granted is left asleep,  *)
(* the wait-for table shows every transaction that keeps another waiting,  *)
(* nobody is granted ahead of the queue, and what a transaction holds is   *)
(* what its lock slots account for.                                        *)
(*                                                                         *)
(* The argument extends IInv by WaitInv, one part for each of these. The   *)
(* last part is about LockMgrHistory: what lockTable reported as locked    *)
(* stays locked, where no session event ends a wait.                       *)
(***************************************************************************)
EXTENDS LockMgr_proofs, LockMgrHistory

-----------------------------------------------------------------------------
(* Frames.                                                                 *)

\* Where a thread in lockTable or unlockTable is.
Inside(t) == pc[t] \in PC \ {"run", "end"}

\* Every step is one or the other: what a client calls or the end of a transaction
\* goes on to, or a step inside.
LEMMA StepCases ==
  ASSUME IInv, [Next]_vars
  PROVE  \/ UNCHANGED vars
         \/ \E t \in Trans : Call(t) \/ (\E i \in Items : UnlockNode(t, i)) \/ EndDone(t)
         \/ \E t \in Trans : Step(t) /\ Inside(t)
<1>1. ASSUME NEW t \in Trans, Step(t), ~ Inside(t)
      PROVE  (\E i \in Items : UnlockNode(t, i)) \/ EndDone(t)
  <2>1. pc[t] \in {"run", "end"}
    BY <1>1 DEF Inside, IInv, TypeOK
  <2> QED BY <1>1, <2>1 DEF Step, LightLock, LockInternalLight, BeginHeavy, Scan, GrantHeavy, Block, NoWait,
        AtDecision, LightUnlock, UnlockHeavy, Settle, WakeUpHead, WakeUpDone, ToLightHead, ToLightDone, WakeUp,
        CheckDeadlock, Deadlock, TimeOut, SessionEvent, Waiting
<1> QED BY <1>1 DEF Next

\* A call, or an unlock that begins, changes no item and nobody's wait.
LEMMA OutsideFrame ==
  ASSUME IInv, NEW t \in Trans,
         Call(t) \/ (\E i \in Items : UnlockNode(t, i)) \/ EndDone(t)
  PROVE  /\ UNCHANGED <<itemVars, mutex, waitVars, mStatus, cvs, held, nodeFlag>>
         /\ pc[t] \in {"run", "end"} /\ mStatus[t] = "BEGIN"
         /\ pc'[t] \in {"lightLock", "lock", "lightUnlock", "unlock", "end", "run"}
         /\ \A u \in Trans \ {t} : pc'[u] = pc[u] /\ op'[u] = op[u] /\ after'[u] = after[u]
         /\ after'[t] # "abort"
<1>1. pc[t] \in {"run", "end"} /\ mStatus[t] = "BEGIN" /\ after[t] # "abort"
  <2>1. pc[t] \in {"run", "end"}
    BY DEF Call, LockTable, UnlockSlot, EndTrans, UnlockNode, EndDone
  <2> QED BY <2>1 DEF IInv, TypeOK, OpInv, Waiting
<1>2. /\ UNCHANGED <<itemVars, mutex, waitVars, mStatus, cvs, held, nodeFlag>>
      /\ pc'[t] \in {"lightLock", "lock", "lightUnlock", "unlock", "end", "run"}
      /\ \A u \in Trans \ {t} : pc'[u] = pc[u] /\ op'[u] = op[u] /\ after'[u] = after[u]
      /\ after'[t] # "abort"
  BY <1>1 DEF IInv, TypeOK, Call, LockTable, UnlockSlot, EndTrans, UnlockNode, EndDone,
     nodeVars, thrVars
<1> QED BY <1>1, <1>2

\* A step inside lockTable or unlockTable is about one item; it changes no other
\* one, and of other threads neither what they are at nor their request.
LEMMA InsideFrame ==
  ASSUME IInv, NEW t \in Trans, Step(t), Inside(t)
  PROVE  /\ op[t].item \in Items
         /\ \A j \in Items : j # op[t].item =>
              /\ mFlag'[j] = mFlag[j] /\ mGrantLockMode'[j] = mGrantLockMode[j]
              /\ grant'[j] = grant[j] /\ request'[j] = request[j] /\ mutex'[j] = mutex[j]
         /\ \A u \in Trans \ {t} :
              /\ pc'[u] = pc[u] /\ op'[u] = op[u] /\ cvs'[u] = cvs[u] /\ after'[u] = after[u]
              /\ slots'[u] = slots[u] /\ chain'[u] = chain[u]
<1>1. op[t].item \in Items
  BY DEF IInv, TypeOK, OpInv, Inside, PC, Slot
<1> DEFINE Own(j) == /\ mFlag'[j] = mFlag[j] /\ mGrantLockMode'[j] = mGrantLockMode[j]
                     /\ grant'[j] = grant[j] /\ request'[j] = request[j] /\ mutex'[j] = mutex[j]
           Other(u) == /\ pc'[u] = pc[u] /\ op'[u] = op[u] /\ cvs'[u] = cvs[u] /\ after'[u] = after[u]
                       /\ slots'[u] = slots[u] /\ chain'[u] = chain[u]
           Framed == /\ \A j \in Items : j # op[t].item => Own(j)
                     /\ \A u \in Trans \ {t} : Other(u)
<1>2. TypeOK
  BY DEF IInv
<1>3. CASE LightLock(t) \/ LockInternalLight(t)
  BY <1>1, <1>2, <1>3 DEF TypeOK, LightLock, LockInternalLight, GrantLight, AddLockSlot, Return, itemVars, nodeVars, waitVars, thrVars
<1>4. CASE BeginHeavy(t)
  BY <1>1, <1>2, <1>4 DEF TypeOK, BeginHeavy, itemVars, nodeVars, waitVars, thrVars
<1>5. CASE \E s \in Trans : Scan(t, s)
  BY <1>1, <1>2, <1>5 DEF TypeOK, Scan, SetGranted, itemVars, nodeVars, waitVars, thrVars
<1>6. CASE GrantHeavy(t)
  BY <1>1, <1>2, <1>6 DEF TypeOK, GrantHeavy, SetGranted, AddLockSlot, Return, itemVars, nodeVars, waitVars, thrVars
<1>7. CASE Block(t)
  BY <1>1, <1>2, <1>7 DEF TypeOK, Block, itemVars, nodeVars, waitVars, thrVars
<1>8. CASE NoWait(t)
  BY <1>1, <1>2, <1>8 DEF TypeOK, NoWait, UnlinkGrants, Return, itemVars, nodeVars, waitVars, thrVars
<1>9. CASE LightUnlock(t)
  BY <1>1, <1>2, <1>9 DEF TypeOK, LightUnlock, ReleaseNode, Return, itemVars, nodeVars, waitVars, thrVars
<1>10. CASE UnlockHeavy(t)
  BY <1>1, <1>2, <1>10 DEF TypeOK, UnlockHeavy, ReleaseGranted, ReleaseNode, SetGranted, itemVars, nodeVars, waitVars, thrVars
<1>11. CASE Settle(t)
  BY <1>1, <1>2, <1>11 DEF TypeOK, Settle, UnlinkGrants, itemVars, nodeVars, waitVars, thrVars
<1>12. CASE WakeUpHead(t) \/ ToLightHead(t)
  BY <1>1, <1>2, <1>12 DEF TypeOK, WakeUpHead, ToLightHead, Resume, SetGranted, itemVars, nodeVars, waitVars, thrVars
<1>13. CASE WakeUpDone(t) \/ ToLightDone(t)
  BY <1>1, <1>2, <1>13 DEF TypeOK, WakeUpDone, ToLightDone, Leave, ClearRow, Return, itemVars, nodeVars, waitVars, thrVars
<1>14. CASE WakeUp(t) \/ CheckDeadlock(t)
  BY <1>1, <1>2, <1>14 DEF TypeOK, WakeUp, CheckDeadlock, ClearRow, AddLockSlot, Return, itemVars, nodeVars, waitVars, thrVars
<1>15. CASE Deadlock(t) \/ TimeOut(t)
  BY <1>1, <1>2, <1>15 DEF TypeOK, Deadlock, TimeOut, LeaveQueue, itemVars, nodeVars, waitVars, thrVars
<1>16. CASE SessionEvent(t)
  BY <1>1, <1>2, <1>16 DEF TypeOK, SessionEvent, LeaveQueue, ReleaseGranted, ReleaseNode, SetGranted, ClearRow, Return, itemVars, nodeVars, waitVars, thrVars
<1>17. ~ (\E i \in Items : UnlockNode(t, i)) /\ ~ EndDone(t)
  BY DEF Inside, UnlockNode, EndDone
<1> QED BY <1>1, <1>3, <1>4, <1>5, <1>6, <1>7, <1>8, <1>9, <1>10, <1>11, <1>12, <1>13, <1>14, <1>15, <1>16, <1>17 DEF Step

-----------------------------------------------------------------------------
(* No lost wake-up.                                                        *)

\* While queue, grant list and group mode of an item stay, so does what is said of
\* the head of the queue.
LEMMA QueueKept ==
  ASSUME IInv, NEW i \in Items, QueueItem(i), Stable(i)' => Stable(i),
         request'[i] = request[i], grant'[i] = grant[i],
         mGrantLockMode'[i] = mGrantLockMode[i],
         \A u \in Trans : u \in ToSet(request[i]) => op'[u] = op[u] /\ cvs'[u] = cvs[u]
  PROVE  QueueItem(i)'
<1> SUFFICES ASSUME Stable(i)', request[i] # <<>>
             PROVE  ~ Grantable(Head(request[i]), i)'
  BY DEF QueueItem
<1>1. request[i] \in Seq(Trans) /\ IsInjective(request[i])
  BY DEF IInv, TypeOK, ItemInv, WaitItem
<1>2. Head(request[i]) \in Trans /\ Head(request[i]) \in ToSet(request[i])
  BY <1>1, QueueTail
<1>3. PICK u \in Trans : u = Head(request[i]) /\ u \in ToSet(request[i])
  BY <1>2
<1>4. ~ Grantable(u, i)
  BY <1>3 DEF QueueItem
<1>5. ~ Grantable(u, i)'
  BY <1>3, <1>4 DEF Grantable
<1> QED BY <1>3, <1>5

\* A grant while others are queued converts what the transaction holds already: it
\* makes the group mode heavier and the grant list no shorter.
LEMMA GrantHeavyQueue ==
  ASSUME IInv, NEW t \in Trans, NEW i \in Items, op[t].item = i, QueueItem(i), GrantHeavy(t)
  PROVE  QueueItem(i)'
<1>1. /\ pc[t] \in {"lock", "scan"} /\ op[t].mode \in Mode /\ ~ Light(i)
      /\ pc[t] = "scan" => request[i] = <<>>
      /\ grant[i] = {u \in Trans : held[u][i] # "N"} /\ t \notin ToSet(request[i])
      /\ mutex[i] = IF pc[t] = "scan" THEN t ELSE NoTrans
  BY AtDecisionFacts DEF GrantHeavy
<1>2. /\ request' = request /\ cvs' = cvs /\ grant'[i] = grant[i] \cup {t}
      /\ mGrantLockMode'[i] = Conversion(mGrantLockMode[i], op[t].mode)
      /\ \A u \in Trans \ {t} : op'[u] = op[u]
      /\ Compatibly(t) \/ SoleHolder(t)
  BY DEF GrantHeavy, Return, IInv, TypeOK
<1> SUFFICES ASSUME request[i] # <<>>
             PROVE  ~ Grantable(Head(request[i]), i)'
  BY <1>2 DEF QueueItem
<1>3. request[i] \in Seq(Trans) /\ IsInjective(request[i]) /\ mGrantLockMode[i] \in Mode
  BY DEF IInv, TypeOK, ItemInv, WaitItem
<1>4. PICK u \in Trans : u = Head(request[i]) /\ u \in ToSet(request[i])
  BY <1>3, QueueTail
<1>5. held[t][i] # "N"
  BY <1>2 DEF Compatibly, SoleHolder
<1>6. grant'[i] = grant[i]
  BY <1>1, <1>2, <1>5
<1>7. ~ Grantable(u, i)
  BY <1>1, <1>4 DEF QueueItem, Stable
<1>8. op[u].mode \in Mode /\ op'[u] = op[u]
  BY <1>1, <1>2, <1>4 DEF IInv, TypeOK
<1>9. ~ Compatible(op[u].mode, Conversion(mGrantLockMode[i], op[t].mode))
  <2>1. Conversion(mGrantLockMode[i], op[t].mode) \in Mode
    BY <1>1, <1>3, ConversionType
  <2>2. ~ Compatible(op[u].mode, mGrantLockMode[i])
    BY <1>7 DEF Grantable
  <2> QED BY <2>1, <2>2, <1>1, <1>3, <1>8, CompatibleSymmetric, ConversionCompatible
<1>10. ~ Grantable(u, i)'
  BY <1>2, <1>6, <1>7, <1>8, <1>9 DEF Grantable
<1> QED BY <1>2, <1>4, <1>10

\* A request that is queued could not be granted; behind others it changes nothing
\* for the head, and at the head it is the one that could not.
LEMMA BlockQueue ==
  ASSUME IInv, NEW t \in Trans, NEW i \in Items, op[t].item = i, QueueItem(i), Block(t)
  PROVE  QueueItem(i)'
<1>1. /\ pc[t] \in {"lock", "scan"} /\ op[t].mode \in Mode /\ ~ Light(i)
      /\ pc[t] = "scan" => request[i] = <<>>
      /\ t \notin ToSet(request[i])
      /\ mutex[i] = IF pc[t] = "scan" THEN t ELSE NoTrans
  BY AtDecisionFacts DEF Block
<1>2. /\ request'[i] = IF held[t][i] # "N" THEN <<t>> \o request[i] ELSE Append(request[i], t)
      /\ cvs'[t] = (held[t][i] # "N") /\ \A u \in Trans \ {t} : cvs'[u] = cvs[u]
      /\ grant' = grant /\ mGrantLockMode' = mGrantLockMode /\ op' = op
      /\ ~ Compatibly(t) /\ ~ SoleHolder(t)
  BY DEF Block, IInv, TypeOK
<1>3. request[i] \in Seq(Trans) /\ IsInjective(request[i]) /\ mGrantLockMode[i] \in Mode
  BY DEF IInv, TypeOK, ItemInv, WaitItem
<1>4. ASSUME held[t][i] # "N" \/ request[i] = <<>>
      PROVE  Head(request'[i]) = t /\ ~ Grantable(t, i)'
  <2>1. Head(request'[i]) = t
    BY <1>2, <1>3, <1>4
  <2>2. ~ Compatible(op[t].mode, mGrantLockMode[i])
    BY <1>1, <1>2, <1>3, <1>4, CompatibleSymmetric DEF Compatibly
  <2>3. ~ (Cardinality(grant[i]) = 1 /\ cvs'[t])
    BY <1>2 DEF SoleHolder
  <2> QED BY <2>1, <2>2, <2>3, <1>2 DEF Grantable
<1>5. ASSUME held[t][i] = "N", request[i] # <<>>
      PROVE  Head(request'[i]) = Head(request[i]) /\ ~ Grantable(Head(request[i]), i)'
  <2>1. request'[i] = Append(request[i], t) /\ Head(request'[i]) = Head(request[i])
    BY <1>2, <1>3, <1>5
  <2>2. PICK u \in Trans : u = Head(request[i]) /\ u \in ToSet(request[i])
    BY <1>3, <1>5, QueueTail
  <2>3. ~ Grantable(u, i) /\ u # t
    BY <2>2, <1>1, <1>5 DEF QueueItem, Stable
  <2>4. ~ Grantable(u, i)'
    BY <2>3, <1>2 DEF Grantable
  <2> QED BY <2>1, <2>2, <2>4
<1>6. CASE held[t][i] # "N" \/ request[i] = <<>>
  BY <1>4, <1>6 DEF QueueItem
<1>7. CASE held[t][i] = "N" /\ request[i] # <<>>
  <2>1. PICK u : u = Head(request[i])
    OBVIOUS
  <2>2. Head(request'[i]) = u /\ ~ Grantable(u, i)'
    BY <2>1, <1>2, <1>5, <1>7 DEF Grantable
  <2> QED BY <2>2 DEF QueueItem
<1> QED BY <1>6, <1>7

\* What a suspended transaction knows of its place.
LEMMA BlockedPlace ==
  ASSUME IInv, NEW t \in Trans, NEW i \in Items, t \in ToSet(request[i])
  PROVE  mStatus[t] = "BLOCKED" /\ Waiting(t) /\ op[t].item = i /\ op[t] \in Slot
BY DEF IInv, OpInv, ItemInv, WaitItem, Waiting

\* Every step leaves the head of a queue asleep only if it cannot be granted: who
\* releases or leaves the queue goes on to the wake-up, under the item's mutex.
LEMMA QueueStep ==
  ASSUME IInv, \A i \in Items : QueueItem(i), [Next]_vars
  PROVE  \A i \in Items : QueueItem(i)'
<1> SUFFICES ASSUME NEW j \in Items PROVE QueueItem(j)'
  OBVIOUS
<1>0. IInv' /\ QueueItem(j) /\ TypeOK
  BY NextInv DEF IInv
<1>1. CASE UNCHANGED vars
  BY <1>0, <1>1, QueueKept DEF vars, itemVars, thrVars, Stable, Light
<1>2. ASSUME NEW t \in Trans, Call(t) \/ (\E i \in Items : UnlockNode(t, i)) \/ EndDone(t)
      PROVE  QueueItem(j)'
  <2>1. /\ UNCHANGED <<itemVars, mutex, cvs>> /\ mStatus[t] = "BEGIN"
        /\ \A u \in Trans \ {t} : op'[u] = op[u]
    BY <1>2, OutsideFrame
  <2>2. t \notin ToSet(request[j])
    BY <2>1, BlockedPlace
  <2> QED BY <2>1, <2>2, <1>0, QueueKept DEF itemVars, Stable, Light
<1>3. ASSUME NEW t \in Trans, Step(t), Inside(t) PROVE QueueItem(j)'
  <2> DEFINE i == op[t].item
  <2>0. /\ i \in Items
        /\ j # i => /\ mFlag'[j] = mFlag[j] /\ mGrantLockMode'[j] = mGrantLockMode[j]
                    /\ grant'[j] = grant[j] /\ request'[j] = request[j] /\ mutex'[j] = mutex[j]
        /\ \A u \in Trans \ {t} : op'[u] = op[u] /\ cvs'[u] = cvs[u]
    BY <1>3, InsideFrame
  <2>1. CASE j # i
    <3>1. t \notin ToSet(request[j])
      BY <2>1, BlockedPlace
    <3> QED BY <2>0, <2>1, <3>1, <1>0, QueueKept DEF Stable, Light
  <2>2. CASE j = i
    \* The thread goes on under the item's mutex.
    <3>1. CASE InLoop(t)' /\ op'[t].item = j
      <4>1. ~ Stable(j)'
        BY <3>1, <1>0, ConstAssumption DEF IInv, ItemInv, MutexItem, Stable
      <4> QED BY <4>1 DEF QueueItem
    \* A thread that is not queued changes nothing of the lists.
    <3>2. CASE /\ itemVars' = itemVars /\ mutex' = mutex
               /\ mStatus[t] = "BEGIN" \/ (op'[t] = op[t] /\ cvs'[t] = cvs[t])
      <4>1. mStatus[t] = "BEGIN" => t \notin ToSet(request[j])
        BY BlockedPlace
      <4> QED BY <4>1, <3>2, <2>0, <1>0, QueueKept DEF itemVars, Stable, Light
    <3>3. CASE LightLock(t) \/ LockInternalLight(t) \/ LightUnlock(t) \/ WakeUp(t) \/ CheckDeadlock(t)
      <4>1. itemVars' = itemVars /\ mutex' = mutex
        BY <3>3 DEF LightLock, LockInternalLight, GrantLight, LightUnlock, WakeUp, CheckDeadlock
      <4>2. mStatus[t] = "BEGIN" \/ (op'[t] = op[t] /\ cvs'[t] = cvs[t])
        BY <3>3, <1>0 DEF IInv, TypeOK, OpInv, Waiting, LightLock, LockInternalLight, GrantLight, LightUnlock, WakeUp,
           CheckDeadlock, thrVars
      <4> QED BY <3>2, <4>1, <4>2
    <3>4. CASE BeginHeavy(t) \/ (\E s \in Trans : Scan(t, s)) \/ UnlockHeavy(t) \/ Settle(t) \/ WakeUpHead(t)
               \/ ToLightHead(t) \/ Deadlock(t) \/ TimeOut(t)
      <4>1. InLoop(t)' /\ op'[t].item = j
        BY <3>4, <2>2, <1>0 DEF TypeOK, InLoop, BeginHeavy, Scan, UnlockHeavy, Settle, UnlinkGrants, WakeUpHead,
           ToLightHead, Resume, Deadlock, TimeOut, LeaveQueue, thrVars
      <4> QED BY <3>1, <4>1
    <3>5. CASE GrantHeavy(t)
      BY <3>5, <2>2, <1>0, GrantHeavyQueue
    <3>6. CASE Block(t)
      BY <3>6, <2>2, <1>0, BlockQueue
    <3>7. CASE NoWait(t)
      <4>1. CASE pc[t] = "scan"
        <5>1. InLoop(t)' /\ op'[t].item = j
          BY <3>7, <4>1, <2>2, <1>0 DEF TypeOK, InLoop, NoWait, UnlinkGrants
        <5> QED BY <3>1, <5>1
      <4>2. CASE pc[t] # "scan"
        <5>1. itemVars' = itemVars /\ mutex' = mutex
          BY <3>7, <4>2 DEF NoWait, itemVars
        <5>2. mStatus[t] = "BEGIN"
          BY <3>7, <2>0, AtDecisionFacts DEF NoWait
        <5> QED BY <3>2, <5>1, <5>2
      <4> QED BY <4>1, <4>2
    <3>8. CASE WakeUpDone(t)
      <4>1. /\ request[j] # <<>> => ~ Grantable(Head(request[j]), j)
            /\ itemVars' = itemVars /\ cvs' = cvs
        BY <3>8, <2>2 DEF WakeUpDone, Leave
      <4>2. request[j] \in Seq(Trans) /\ IsInjective(request[j])
        BY <2>0, <2>2 DEF IInv, TypeOK, ItemInv, WaitItem
      <4>3. ASSUME request[j] # <<>> PROVE ~ Grantable(Head(request[j]), j)'
        <5>1. PICK u \in Trans : u = Head(request[j]) /\ u \in ToSet(request[j])
          BY <4>2, <4>3, QueueTail
        <5>2. u # t
          BY <5>1, <3>8, BlockedPlace DEF WakeUpDone, Waiting
        <5>3. ~ Grantable(u, j)'
          BY <5>1, <5>2, <4>1, <4>3, <2>0 DEF Grantable, itemVars
        <5> QED BY <5>1, <5>3, <4>1 DEF itemVars
      <4> QED BY <4>1, <4>3 DEF QueueItem, itemVars
    <3>9. CASE ToLightDone(t)
      <4>1. mFlag' = [mFlag EXCEPT ![j] = {"LIGHT"}]
        BY <3>9, <2>2 DEF ToLightDone
      <4>2. Light(j)'
        BY <4>1, <1>0 DEF TypeOK, Light
      <4> QED BY <4>2 DEF QueueItem, Stable
    <3>10. CASE SessionEvent(t)
      <4>1. \/ LeaveQueue(t) \/ (mStatus[t] = "BEGIN" /\ UNCHANGED <<itemVars, mutex>>)
            \/ (pc' = [pc EXCEPT ![t] = "settle"] /\ UNCHANGED op)
        BY <3>10 DEF SessionEvent
      <4>2. CASE mStatus[t] = "BEGIN" /\ UNCHANGED <<itemVars, mutex>>
        BY <4>2, <3>2
      <4>3. CASE LeaveQueue(t) \/ (pc' = [pc EXCEPT ![t] = "settle"] /\ UNCHANGED op)
        <5>1. InLoop(t)' /\ op'[t].item = j
          BY <4>3, <2>2, <1>0 DEF TypeOK, InLoop, LeaveQueue
        <5> QED BY <3>1, <5>1
      <4> QED BY <4>1, <4>2, <4>3
    <3>11. ~ (\E k \in Items : UnlockNode(t, k)) /\ ~ EndDone(t)
      BY <1>3 DEF Inside, UnlockNode, EndDone
    <3> QED BY <1>3, <3>3, <3>4, <3>5, <3>6, <3>7, <3>8, <3>9, <3>10, <3>11 DEF Step
  <2> QED BY <2>1, <2>2
<1> QED BY <1>1, <1>2, <1>3, StepCases

-----------------------------------------------------------------------------
(* The wait-for table.                                                     *)

\* Who is queued before whom, when a request is added at either end or leaves.
LEMMA AheadMoves ==
  ASSUME NEW q \in Seq(Trans), IsInjective(q), NEW u \in Trans, NEW v \in Trans
  PROVE  /\ \A t \in Trans : t \notin ToSet(q) =>
              /\ Ahead(u, v, Append(q, t)) => Ahead(u, v, q) \/ (v = t /\ u \in ToSet(q))
              /\ Ahead(u, v, <<t>> \o q) => Ahead(u, v, q) \/ (u = t /\ v \in ToSet(q))
         /\ q # <<>> => /\ Ahead(u, v, Tail(q)) => Ahead(u, v, q)
                        /\ v \in ToSet(Tail(q)) => Ahead(Head(q), v, q)
         /\ \A k \in DOMAIN q : Ahead(u, v, RemoveAt(q, k)) => Ahead(u, v, q) /\ u # q[k]
<1>1. Len(q) \in Nat /\ DOMAIN q = 1 .. Len(q)
  OBVIOUS
<1>2. ASSUME NEW t \in Trans, Ahead(u, v, Append(q, t))
      PROVE  Ahead(u, v, q) \/ (v = t /\ u \in ToSet(q))
  <2>1. /\ DOMAIN Append(q, t) = 1 .. Len(q) + 1
        /\ \A k \in 1 .. Len(q) : Append(q, t)[k] = q[k]
        /\ Append(q, t)[Len(q) + 1] = t
    BY AppendProperties
  <2>2. PICK k, l \in 1 .. Len(q) + 1 : k < l /\ Append(q, t)[k] = u /\ Append(q, t)[l] = v
    BY <1>2, <2>1 DEF Ahead
  <2>3. k \in DOMAIN q /\ q[k] = u
    BY <2>1, <2>2, <1>1
  <2>4. CASE l = Len(q) + 1
    BY <2>1, <2>2, <2>3, <2>4 DEF ToSet
  <2>5. CASE l # Len(q) + 1
    <3>1. l \in DOMAIN q /\ q[l] = v
      BY <2>1, <2>2, <2>5, <1>1
    <3> QED BY <3>1, <2>2, <2>3 DEF Ahead
  <2> QED BY <2>4, <2>5
<1>3. ASSUME NEW t \in Trans, Ahead(u, v, <<t>> \o q)
      PROVE  Ahead(u, v, q) \/ (u = t /\ v \in ToSet(q))
  <2> DEFINE c == <<t>> \o q
  <2>1. <<t>> \in Seq(Trans) /\ Len(<<t>>) = 1 /\ <<t>>[1] = t
    OBVIOUS
  <2>2. /\ c \in Seq(Trans) /\ Len(c) = 1 + Len(q)
        /\ \A k \in 1 .. 1 + Len(q) : c[k] = IF k <= 1 THEN <<t>>[k] ELSE q[k - 1]
    BY <2>1, ConcatProperties
  <2>3. DOMAIN c = 1 .. Len(q) + 1
    BY <2>2, <1>1
  <2> HIDE DEF c
  <2>4. PICK k, l \in 1 .. Len(q) + 1 : k < l /\ c[k] = u /\ c[l] = v
    BY <1>3, <2>3 DEF Ahead, c
  <2>5. l - 1 \in DOMAIN q /\ q[l - 1] = v
    BY <2>2, <2>4, <1>1
  <2>6. CASE k = 1
    <3>1. 1 \in 1 .. 1 + Len(q) /\ 1 <= 1
      BY <1>1
    <3>2. c[1] = <<t>>[1]
      BY <3>1, <2>2
    <3>3. u = t /\ v \in ToSet(q)
      BY <3>2, <2>1, <2>4, <2>5, <2>6 DEF ToSet
    <3> QED BY <3>3
  <2>7. CASE k # 1
    <3>1. k - 1 \in DOMAIN q /\ q[k - 1] = u /\ k - 1 < l - 1
      BY <2>2, <2>4, <2>7, <1>1
    <3> QED BY <3>1, <2>5 DEF Ahead
  <2> QED BY <2>6, <2>7
<1>4. ASSUME q # <<>>
      PROVE  /\ Ahead(u, v, Tail(q)) => Ahead(u, v, q)
             /\ v \in ToSet(Tail(q)) => Ahead(Head(q), v, q)
  <2>1. /\ Tail(q) \in Seq(Trans) /\ Len(Tail(q)) = Len(q) - 1 /\ Head(q) = q[1]
        /\ \A k \in 1 .. Len(Tail(q)) : Tail(q)[k] = q[k + 1]
    BY <1>4, HeadTailProperties
  <2>2. DOMAIN Tail(q) = 1 .. Len(q) - 1 /\ 1 \in DOMAIN q
    BY <2>1, <1>1, <1>4, EmptySeq
  <2>3. \A k \in DOMAIN Tail(q) : k + 1 \in DOMAIN q /\ 1 < k + 1 /\ Tail(q)[k] = q[k + 1]
    BY <2>1, <2>2, <1>1
  <2>4. ASSUME Ahead(u, v, Tail(q)) PROVE Ahead(u, v, q)
    <3>1. PICK k, l \in DOMAIN Tail(q) : k < l /\ Tail(q)[k] = u /\ Tail(q)[l] = v
      BY <2>4 DEF Ahead
    <3>2. k + 1 \in DOMAIN q /\ l + 1 \in DOMAIN q /\ q[k + 1] = u /\ q[l + 1] = v
      BY <2>3, <3>1
    <3>3. k + 1 < l + 1
      BY <2>2, <3>1, <1>1
    <3> QED BY <3>2, <3>3 DEF Ahead
  <2>5. v \in ToSet(Tail(q)) => Ahead(Head(q), v, q)
    BY <2>1, <2>2, <2>3 DEF ToSet, Ahead
  <2> QED BY <2>4, <2>5
<1>5. ASSUME NEW k \in DOMAIN q, Ahead(u, v, RemoveAt(q, k))
      PROVE  Ahead(u, v, q) /\ u # q[k]
  <2> DEFINE r == RemoveAt(q, k)
  <2>1. /\ r \in Seq(Trans) /\ Len(r) = Len(q) - 1
        /\ \A j \in DOMAIN r : r[j] = IF j < k THEN q[j] ELSE q[j + 1]
    BY RemoveAtProperties
  <2> HIDE DEF r
  <2>2. DOMAIN r = 1 .. Len(q) - 1
    BY <2>1, <1>1
  <2>3. PICK a, b \in DOMAIN r : a < b /\ r[a] = u /\ r[b] = v
    BY <1>5 DEF Ahead, r
  <2> DEFINE a2 == IF a < k THEN a ELSE a + 1
             b2 == IF b < k THEN b ELSE b + 1
  <2>4. a2 \in DOMAIN q /\ b2 \in DOMAIN q /\ a2 < b2 /\ a2 # k
    BY <2>2, <2>3, <1>1
  <2>5. q[a2] = u /\ q[b2] = v
    BY <2>1, <2>3
  <2> HIDE DEF a2, b2
  <2>6. Ahead(u, v, q)
    BY <2>4, <2>5 DEF Ahead
  <2> QED BY <2>4, <2>5, <2>6 DEF IsInjective
<1> QED BY <1>2, <1>3, <1>4, <1>5

\* A step writes the rows of its own thread and of those that are queued for the item
\* it is about, no others.
LEMMA RowsFrame ==
  ASSUME IInv, NEW t \in Trans, Step(t), Inside(t),
         NEW v \in Trans \ {t}, v \notin ToSet(request[op[t].item])
  PROVE  waitsFor'[v] = waitsFor[v]
<1> DEFINE i == op[t].item
<1>1. i \in Items /\ TypeOK
  BY InsideFrame DEF IInv
<1>2. ASSUME NEW gone PROVE ColumnsCleared(i, gone)[v] = waitsFor[v]
  BY DEF ColumnsCleared
<1>3. CASE waitsFor' = waitsFor
  BY <1>3
<1>4. CASE ClearRow(t)
  BY <1>4, <1>1 DEF ClearRow, TypeOK
<1>5. ASSUME NEW gone, waitsFor' = ColumnsCleared(i, gone) PROVE waitsFor'[v] = waitsFor[v]
  BY <1>5, <1>2
<1>6. CASE Block(t)
  BY <1>6, <1>1 DEF Block, TypeOK
<1>7. CASE WakeUpHead(t) \/ ToLightHead(t)
  <2>1. request[i] # <<>> /\ waitsFor' = [waitsFor EXCEPT ![Head(request[i])] = {}]
    BY <1>7 DEF WakeUpHead, ToLightHead, Resume
  <2>2. Head(request[i]) \in ToSet(request[i])
    BY <2>1, <1>1, QueueTail DEF IInv, TypeOK, ItemInv, WaitItem
  <2> QED BY <2>1, <2>2, <1>1 DEF TypeOK
<1>8. CASE LeaveQueue(t)
  <2>1. waitsFor' = waitsFor \/ waitsFor' = ColumnsCleared(i, {t})
    BY <1>8 DEF LeaveQueue
  <2> QED BY <2>1, <1>3, <1>5
<1>9. CASE Leave(t)
  BY <1>9, <1>3, <1>4 DEF Leave, waitVars
<1>10. CASE UnlinkGrants(t)
  BY <1>10, <1>5 DEF UnlinkGrants
<1>11. ASSUME NEW m, ReleaseGranted(t, i, m) PROVE waitsFor'[v] = waitsFor[v]
  <2>1. waitsFor' = waitsFor \/ waitsFor' = ColumnsCleared(i, {t})
    BY <1>11 DEF ReleaseGranted
  <2> QED BY <2>1, <1>3, <1>5
<1>12. CASE LightLock(t) \/ LockInternalLight(t) \/ BeginHeavy(t) \/ (\E s \in Trans : Scan(t, s)) \/ GrantHeavy(t)
            \/ LightUnlock(t) \/ CheckDeadlock(t)
  <2>1. waitsFor' = waitsFor
    BY <1>12 DEF LightLock, LockInternalLight, GrantLight, BeginHeavy, Scan, GrantHeavy, LightUnlock, CheckDeadlock,
       waitVars
  <2> QED BY <2>1, <1>3
<1>13. CASE NoWait(t) \/ Settle(t)
  BY <1>13, <1>3, <1>10 DEF NoWait, Settle
<1>14. CASE UnlockHeavy(t)
  BY <1>14, <1>11 DEF UnlockHeavy
<1>15. CASE WakeUpDone(t) \/ ToLightDone(t)
  BY <1>15, <1>9 DEF WakeUpDone, ToLightDone
<1>16. CASE WakeUp(t)
  BY <1>16, <1>4 DEF WakeUp
<1>17. CASE Deadlock(t) \/ TimeOut(t)
  BY <1>17, <1>8 DEF Deadlock, TimeOut
<1>18. CASE SessionEvent(t)
  BY <1>18, <1>4, <1>8, <1>11 DEF SessionEvent
<1>19. ~ (\E k \in Items : UnlockNode(t, k)) /\ ~ EndDone(t)
  BY DEF Inside, UnlockNode, EndDone
<1> QED BY <1>6, <1>7, <1>12, <1>13, <1>14, <1>15, <1>16, <1>17, <1>18, <1>19 DEF Step

\* The chain of a wait goes with it: WakeUp clears it, and so does the way out of a
\* wait that failed.
LEMMA ChainStep ==
  ASSUME IInv, \A t \in Trans : ChainInv(t), [Next]_vars
  PROVE  \A t \in Trans : ChainInv(t)'
<1> SUFFICES ASSUME NEW v \in Trans PROVE ChainInv(v)'
  OBVIOUS
<1>0. TypeOK /\ OpInv /\ ChainInv(v)
  BY DEF IInv
<1>1. CASE UNCHANGED vars
  BY <1>0, <1>1 DEF ChainInv, Waiting, vars, waitVars, thrVars
<1>2. ASSUME NEW t \in Trans, Call(t) \/ (\E i \in Items : UnlockNode(t, i)) \/ EndDone(t)
      PROVE  ChainInv(v)'
  <2>1. /\ chain' = chain /\ pc[t] \in {"run", "end"}
        /\ \A u \in Trans \ {t} : pc'[u] = pc[u] /\ after'[u] = after[u]
    BY <1>2, OutsideFrame DEF waitVars
  <2>2. chain[t] = {}
    BY <2>1, <1>0 DEF IInv, OpInv, ChainInv, Waiting
  <2> QED BY <2>1, <2>2, <1>0 DEF ChainInv, Waiting
<1>3. ASSUME NEW t \in Trans, Step(t), Inside(t) PROVE ChainInv(v)'
  <2>1. CASE v # t
    BY <2>1, <1>0, <1>3, InsideFrame DEF ChainInv, Waiting
  <2>2. CASE v = t
    <3>1. CASE ClearRow(t)
      BY <3>1, <2>2, <1>0 DEF ClearRow, ChainInv, TypeOK
    <3>2. CASE after'[t] = "abort" \/ Waiting(t)'
      BY <3>2, <2>2 DEF ChainInv
    <3>3. CASE chain' = chain /\ ~ Waiting(t) /\ (after[t] = "abort" => after' = after)
      BY <3>3, <2>2, <1>0 DEF ChainInv
    <3>4. CASE LightLock(t) \/ LockInternalLight(t) \/ BeginHeavy(t) \/ (\E s \in Trans : Scan(t, s)) \/ GrantHeavy(t)
               \/ NoWait(t) \/ LightUnlock(t) \/ UnlockHeavy(t) \/ Settle(t) \/ WakeUpHead(t) \/ ToLightHead(t)
      <4>1. /\ chain' = chain
            /\ pc[t] \in {"lightLock", "lock", "scan", "lightUnlock", "unlock", "settle", "wakeup", "toLight"}
        BY <3>4 DEF LightLock, LockInternalLight, GrantLight, BeginHeavy, Scan, GrantHeavy, NoWait, AtDecision,
           LightUnlock, UnlockHeavy, ReleaseGranted, Settle, WakeUpHead, ToLightHead, Resume, waitVars
      <4>2. after' = after \/ LightUnlock(t)
        BY <3>4 DEF LightLock, LockInternalLight, GrantLight, BeginHeavy, Scan, GrantHeavy, NoWait,
           UnlockHeavy, Settle, WakeUpHead, ToLightHead, Resume, thrVars
      <4>3. LightUnlock(t) => after[t] # "abort"
        BY <1>0 DEF LightUnlock, OpInv
      <4> QED BY <4>1, <4>2, <4>3, <3>3 DEF Waiting
    <3>5. CASE Block(t) \/ CheckDeadlock(t)
      BY <3>5, <3>2, <1>0 DEF Block, CheckDeadlock, Waiting, TypeOK
    <3>6. CASE WakeUpDone(t) \/ ToLightDone(t)
      <4>1. Leave(t) /\ ~ Waiting(t)
        BY <3>6 DEF WakeUpDone, ToLightDone, Waiting
      <4>2. CASE after[t] = "abort"
        BY <4>1, <4>2, <3>1 DEF Leave
      <4>3. CASE after[t] # "abort"
        BY <4>1, <4>3, <3>3 DEF Leave, waitVars
      <4> QED BY <4>2, <4>3
    <3>7. CASE WakeUp(t)
      BY <3>7, <3>1 DEF WakeUp
    <3>8. CASE LeaveQueue(t)
      BY <3>8, <3>2, <1>0 DEF LeaveQueue, TypeOK
    <3>9. CASE SessionEvent(t)
      BY <3>9, <3>1, <3>2, <3>8, <1>0 DEF SessionEvent, TypeOK
    <3>10. ~ (\E k \in Items : UnlockNode(t, k)) /\ ~ EndDone(t)
      BY <1>3 DEF Inside, UnlockNode, EndDone
    <3> QED BY <1>3, <3>4, <3>5, <3>6, <3>7, <3>8, <3>9, <3>10 DEF Step, Deadlock, TimeOut
  <2> QED BY <2>1, <2>2
<1> QED BY <1>1, <1>2, <1>3, StepCases

\* What keeps the edges of an item complete: nobody new is queued, nobody gets in
\* front of another who was not, and no edge to one that is still there goes.
LEMMA EdgesStay ==
  ASSUME NEW i \in Items, EdgeItem(i), ToLight(i) => ToLight(i)',
         \A v, u \in Trans :
           /\ v \in ToSet(request'[i]) /\ u # v
           /\ u \in grant'[i] \/ Ahead(u, v, request'[i])
           => /\ v \in ToSet(request[i])
              /\ u \in grant[i] \/ Ahead(u, v, request[i])
              /\ u \in waitsFor[v] => u \in waitsFor'[v]
  PROVE  EdgeItem(i)'
BY DEF EdgeItem

\* Only the thread that takes the grant list apart ends that.
LEMMA ToLightStays ==
  ASSUME NEW j \in Items, NEW t \in Trans, ~ At(t, "toLight", j),
         \A u \in Trans \ {t} : pc'[u] = pc[u] /\ op'[u] = op[u]
  PROVE  ToLight(j) => ToLight(j)'
<1> SUFFICES ASSUME ToLight(j) PROVE ToLight(j)'
  OBVIOUS
<1>1. PICK s \in Trans : At(s, "toLight", j)
  BY DEF ToLight
<1>2. s # t /\ At(s, "toLight", j)'
  BY <1>1 DEF At
<1> QED BY <1>2 DEF ToLight

\* A request is queued with an edge to each holder and, unless it is a conversion, to
\* each request before it; a conversion that goes to the head is a holder already.
LEMMA BlockEdges ==
  ASSUME IInv, NEW t \in Trans, NEW i \in Items, op[t].item = i, EdgeItem(i), ChainInv(t), Block(t)
  PROVE  EdgeItem(i)'
<1>1. /\ pc[t] \in {"lock", "scan"} /\ mStatus[t] = "BEGIN" /\ ~ ToLight(i)
      /\ grant[i] = {u \in Trans : held[u][i] # "N"} /\ t \notin ToSet(request[i])
  BY AtDecisionFacts DEF Block
<1>2. chain[t] = {}
  BY <1>1 DEF ChainInv, Waiting, IInv, OpInv
<1>3. /\ request'[i] = IF held[t][i] # "N" THEN <<t>> \o request[i] ELSE Append(request[i], t)
      /\ grant' = grant /\ \A v \in Trans \ {t} : waitsFor'[v] = waitsFor[v]
      /\ waitsFor'[t] = waitsFor[t] \cup Blockers(t)
  BY <1>2 DEF Block, IInv, TypeOK
<1>4. request[i] \in Seq(Trans) /\ IsInjective(request[i])
  BY DEF IInv, TypeOK, ItemInv, WaitItem
<1>5. ToSet(request'[i]) = ToSet(request[i]) \cup {t}
  BY <1>1, <1>3, <1>4, QueueAdd
<1>6. \A u \in Trans : ~ Ahead(u, t, request[i])
  BY <1>1 DEF Ahead, ToSet
<1>7. ASSUME NEW v \in Trans, NEW u \in Trans, v \in ToSet(request'[i]), u # v,
             u \in grant[i] \/ Ahead(u, v, request'[i])
      PROVE  u \in waitsFor'[v]
  <2>1. CASE v = t
    <3>1. CASE u \in grant[i]
      BY <2>1, <3>1, <1>3, <1>7 DEF Blockers
    <3>2. CASE Ahead(u, t, request'[i]) /\ held[t][i] # "N"
      <4>1. request'[i] = <<t>> \o request[i]
        BY <3>2, <1>3
      <4>2. Ahead(u, t, request[i]) \/ u = t
        BY <3>2, <4>1, <1>1, <1>4, AheadMoves
      <4> QED BY <4>2, <2>1, <1>6, <1>7
    <3>3. CASE Ahead(u, t, request'[i]) /\ held[t][i] = "N"
      <4>1. request'[i] = Append(request[i], t)
        BY <3>3, <1>3
      <4>2. Ahead(u, t, Append(request[i], t)) => Ahead(u, t, request[i]) \/ u \in ToSet(request[i])
        BY <1>1, <1>4, AheadMoves
      <4>3. Ahead(u, t, request[i]) \/ u \in ToSet(request[i])
        BY <3>3, <4>1, <4>2
      <4>4. u \in Blockers(t)
        BY <4>3, <3>3, <2>1, <1>6, <1>7 DEF Blockers
      <4> QED BY <4>4, <2>1, <1>3
    <3> QED BY <3>1, <3>2, <3>3, <2>1, <1>7
  <2>2. CASE v # t
    <3>1. v \in ToSet(request[i]) /\ waitsFor'[v] = waitsFor[v]
      BY <2>2, <1>3, <1>5, <1>7
    <3>2. CASE u \in grant[i]
      BY <3>1, <3>2, <1>1, <1>7 DEF EdgeItem
    <3>3. CASE Ahead(u, v, request'[i]) /\ held[t][i] # "N"
      <4>1. request'[i] = <<t>> \o request[i]
        BY <3>3, <1>3
      <4>2. Ahead(u, v, <<t>> \o request[i]) => Ahead(u, v, request[i]) \/ u = t
        BY <1>1, <1>4, AheadMoves
      <4>3. Ahead(u, v, request[i]) \/ u = t
        BY <3>3, <4>1, <4>2
      <4> QED BY <4>3, <3>1, <3>3, <1>1, <1>7 DEF EdgeItem
    <3>4. CASE Ahead(u, v, request'[i]) /\ held[t][i] = "N"
      <4>1. request'[i] = Append(request[i], t)
        BY <3>4, <1>3
      <4>2. Ahead(u, v, Append(request[i], t)) => Ahead(u, v, request[i])
        BY <2>2, <1>1, <1>4, AheadMoves
      <4>3. Ahead(u, v, request[i])
        BY <3>4, <4>1, <4>2
      <4> QED BY <4>3, <3>1, <1>1, <1>7 DEF EdgeItem
    <3> QED BY <3>2, <3>3, <3>4, <1>7
  <2> QED BY <2>1, <2>2
<1> QED BY <1>3, <1>7 DEF EdgeItem

\* The head of the queue had an edge from everyone behind it: as a new holder it is
\* no new obstacle.
LEMMA WakeUpEdges ==
  ASSUME IInv, NEW t \in Trans, NEW i \in Items, op[t].item = i, EdgeItem(i), WakeUpHead(t)
  PROVE  EdgeItem(i)'
<1>1. /\ pc[t] = "wakeup" /\ request[i] # <<>>
      /\ request'[i] = Tail(request[i]) /\ grant'[i] = grant[i] \cup {Head(request[i])}
      /\ waitsFor' = [waitsFor EXCEPT ![Head(request[i])] = {}]
      /\ UNCHANGED <<pc, op>>
  BY DEF WakeUpHead, Resume, IInv, TypeOK
<1>2. request[i] \in Seq(Trans) /\ IsInjective(request[i])
  BY DEF IInv, TypeOK, ItemInv, WaitItem
<1>3. PICK h \in Trans : h = Head(request[i]) /\ ToSet(Tail(request[i])) = ToSet(request[i]) \ {h}
  BY <1>1, <1>2, QueueTail
<1>4. \A v \in Trans : v # h => waitsFor'[v] = waitsFor[v]
  BY <1>1, <1>3 DEF IInv, TypeOK
<1>5. ToLight(i) => ToLight(i)'
  BY <1>1 DEF ToLight, At
<1>6. ASSUME NEW v \in Trans, NEW u \in Trans, v \in ToSet(request'[i]), u # v,
             u \in grant'[i] \/ Ahead(u, v, request'[i])
      PROVE  /\ v \in ToSet(request[i])
             /\ u \in grant[i] \/ Ahead(u, v, request[i])
             /\ u \in waitsFor[v] => u \in waitsFor'[v]
  <2>1. v \in ToSet(Tail(request[i])) /\ v \in ToSet(request[i]) /\ v # h
    BY <1>1, <1>3, <1>6
  <2>2. Ahead(h, v, request[i])
    BY <2>1, <1>1, <1>2, <1>3, AheadMoves
  <2>3. Ahead(u, v, Tail(request[i])) => Ahead(u, v, request[i])
    BY <1>1, <1>2, AheadMoves
  <2> QED BY <2>1, <2>2, <2>3, <1>1, <1>3, <1>4, <1>6
<1> QED BY <1>5, <1>6, EdgesStay

\* The column of a transaction is cleared when it is neither holder nor queued.
LEMMA LeaveQueueEdges ==
  ASSUME IInv, NEW t \in Trans, NEW i \in Items, op[t].item = i, EdgeItem(i),
         mStatus[t] = "BLOCKED", MutexFree(t), LeaveQueue(t)
  PROVE  EdgeItem(i)'
<1> DEFINE k == CHOOSE n \in DOMAIN request[i] : request[i][n] = t
<1>1. /\ request[i] \in Seq(Trans) /\ IsInjective(request[i]) /\ k \in DOMAIN request[i]
      /\ request[i][k] = t /\ request[i] # <<>>
  BY QueuePlace
<1>2. /\ request'[i] = RemoveAt(request[i], k) /\ grant' = grant
      /\ waitsFor' = IF cvs[t] THEN waitsFor ELSE ColumnsCleared(i, {t})
      /\ \A u \in Trans \ {t} : pc'[u] = pc[u] /\ op'[u] = op[u]
  BY DEF LeaveQueue, IInv, TypeOK
<1> HIDE DEF k
<1>3. t \in ToSet(request[i]) /\ Waiting(t)
  BY <1>1, BlockedPlace DEF ToSet
<1>4. cvs[t] \/ t \notin grant[i]
  <2>1. cvs[t] <=> held[t][i] # "N"
    BY <1>3 DEF IInv, ItemInv, WaitItem
  <2>2. ItemInv(i) /\ ~ Light(i) /\ mutex[i] = NoTrans
    BY <1>1 DEF IInv, ItemInv, LightItem, MutexFree
  <2>3. Summary(i)
    BY <2>2, LoopNone DEF ItemInv, HeavyItem
  <2> QED BY <2>1, <2>3 DEF Summary
<1>5. \A v \in Trans, u \in Trans \ {t} : u \in waitsFor[v] => u \in waitsFor'[v]
  <2>1. CASE cvs[t]
    BY <2>1, <1>2
  <2>2. CASE ~ cvs[t]
    BY <2>2, <1>2 DEF ColumnsCleared
  <2> QED BY <2>1, <2>2
<1>6. cvs[t] => waitsFor' = waitsFor
  BY <1>2
<1>7. ToLight(i) => ToLight(i)'
  BY <1>2, <1>3, ToLightStays DEF At, Waiting
<1>8. ASSUME NEW v \in Trans, NEW u \in Trans, v \in ToSet(request'[i]), u # v,
             u \in grant'[i] \/ Ahead(u, v, request'[i])
      PROVE  /\ v \in ToSet(request[i])
             /\ u \in grant[i] \/ Ahead(u, v, request[i])
             /\ u \in waitsFor[v] => u \in waitsFor'[v]
  <2>1. v \in ToSet(request[i])
    BY <1>1, <1>2, <1>8, SeqRemove
  <2>2. Ahead(u, v, RemoveAt(request[i], k)) => Ahead(u, v, request[i]) /\ u # t
    BY <1>1, AheadMoves
  <2> QED BY <2>1, <2>2, <1>2, <1>4, <1>5, <1>6, <1>8
<1> QED BY <1>7, <1>8, EdgesStay

\* So it is when a node is freed.
LEMMA ReleaseEdges ==
  ASSUME IInv, NEW t \in Trans, NEW i \in Items, op[t].item = i, EdgeItem(i),
         mStatus[t] = "BEGIN", pc[t] # "toLight", NEW m, ReleaseGranted(t, i, m),
         \A u \in Trans \ {t} : pc'[u] = pc[u] /\ op'[u] = op[u]
  PROVE  EdgeItem(i)'
<1>1. t \notin ToSet(request[i]) /\ \A v \in Trans : ~ Ahead(t, v, request[i])
  <2>1. t \notin ToSet(request[i])
    BY BlockedPlace
  <2> QED BY <2>1 DEF Ahead, ToSet
<1>2. /\ request' = request
      /\ \/ grant'[i] = grant[i] /\ waitsFor' = waitsFor
         \/ grant'[i] = grant[i] \ {t} /\ waitsFor' = ColumnsCleared(i, {t})
  BY DEF ReleaseGranted, IInv, TypeOK
<1>3. ToLight(i) => ToLight(i)'
  BY ToLightStays DEF At
<1>4. ASSUME NEW v \in Trans, NEW u \in Trans, v \in ToSet(request'[i]), u # v,
             u \in grant'[i] \/ Ahead(u, v, request'[i])
      PROVE  /\ v \in ToSet(request[i])
             /\ u \in grant[i] \/ Ahead(u, v, request[i])
             /\ u \in waitsFor[v] => u \in waitsFor'[v]
  BY <1>1, <1>2, <1>4 DEF ColumnsCleared
<1> QED BY <1>3, <1>4, EdgesStay

\* Every step keeps the edges of every item.
LEMMA EdgeStep ==
  ASSUME IInv, \A i \in Items : EdgeItem(i), \A t \in Trans : ChainInv(t), [Next]_vars
  PROVE  \A i \in Items : EdgeItem(i)'
<1> SUFFICES ASSUME NEW j \in Items PROVE EdgeItem(j)'
  OBVIOUS
<1>0. EdgeItem(j) /\ TypeOK /\ request[j] \in Seq(Trans)
  BY DEF IInv, TypeOK
<1>1. CASE UNCHANGED vars
  BY <1>0, <1>1 DEF EdgeItem, ToLight, At, vars, itemVars, waitVars, thrVars
<1>2. ASSUME NEW t \in Trans, Call(t) \/ (\E i \in Items : UnlockNode(t, i)) \/ EndDone(t)
      PROVE  EdgeItem(j)'
  <2>1. /\ UNCHANGED <<itemVars, waitVars>> /\ pc[t] \in {"run", "end"}
        /\ \A u \in Trans \ {t} : pc'[u] = pc[u] /\ op'[u] = op[u]
    BY <1>2, OutsideFrame
  <2>2. ToLight(j) => ToLight(j)'
    BY <2>1, ToLightStays DEF At
  <2> QED BY <2>1, <2>2, <1>0, EdgesStay DEF itemVars, waitVars
<1>3. ASSUME NEW t \in Trans, Step(t), Inside(t) PROVE EdgeItem(j)'
  <2> DEFINE i == op[t].item
  <2>0. /\ i \in Items
        /\ j # i => grant'[j] = grant[j] /\ request'[j] = request[j]
        /\ \A u \in Trans \ {t} : pc'[u] = pc[u] /\ op'[u] = op[u]
        /\ \A v \in Trans \ {t} : v \notin ToSet(request[i]) => waitsFor'[v] = waitsFor[v]
    BY <1>3, InsideFrame, RowsFrame
  <2>1. CASE j # i
    <3>1. \A v \in Trans : v \in ToSet(request[j]) => v # t /\ v \notin ToSet(request[i])
      BY <2>0, <2>1, BlockedPlace
    <3>2. ToLight(j) => ToLight(j)'
      BY <2>0, <2>1, ToLightStays DEF At
    <3> QED BY <3>1, <3>2, <2>0, <2>1, <1>0, EdgesStay
  <2>2. CASE j = i
    <3>1. CASE request'[j] = <<>>
      BY <3>1, QueueEmpty DEF EdgeItem
    <3>2. CASE At(t, "toLight", j)'
      BY <3>2 DEF EdgeItem, ToLight
    <3>3. CASE /\ request'[j] = request[j] /\ grant'[j] \subseteq grant[j] /\ pc[t] # "toLight"
               /\ \A v \in Trans : v \in ToSet(request[j]) => waitsFor'[v] = waitsFor[v]
      <4>1. ToLight(j) => ToLight(j)'
        BY <3>3, <2>0, ToLightStays DEF At
      <4> QED BY <4>1, <3>3, <1>0, EdgesStay
    <3>4. CASE /\ itemVars' = itemVars /\ pc[t] # "toLight"
               /\ \/ waitsFor' = waitsFor
                  \/ mStatus[t] = "BEGIN" /\ \A v \in Trans \ {t} : waitsFor'[v] = waitsFor[v]
      <4>1. mStatus[t] = "BEGIN" => t \notin ToSet(request[j])
        BY BlockedPlace
      <4>2. \A v \in Trans : v \in ToSet(request[j]) => waitsFor'[v] = waitsFor[v]
        BY <4>1, <3>4
      <4> QED BY <4>2, <3>3, <3>4 DEF itemVars
    <3>5. CASE ClearRow(t) /\ itemVars' = itemVars /\ mStatus[t] = "BEGIN" /\ pc[t] # "toLight"
      BY <3>4, <3>5, <1>0 DEF ClearRow, TypeOK
    <3>6. CASE LightLock(t) \/ LockInternalLight(t) \/ LightUnlock(t) \/ CheckDeadlock(t)
      BY <3>6, <3>4 DEF LightLock, LockInternalLight, GrantLight, LightUnlock, CheckDeadlock, waitVars
    <3>7. CASE BeginHeavy(t)
      <4>1. request'[j] = <<>>
        BY <3>7, <2>2 DEF BeginHeavy, IInv, ItemInv, LightItem
      <4> QED BY <4>1, <3>1
    <3>8. CASE \E s \in Trans : Scan(t, s)
      <4>1. At(t, "scan", j) /\ request' = request
        BY <3>8, <2>2 DEF Scan, At, itemVars
      <4>2. request'[j] = <<>>
        BY <4>1 DEF IInv, ItemInv, TransitionItem, Scanned
      <4> QED BY <4>2, <3>1
    <3>9. CASE GrantHeavy(t)
      <4>1. /\ pc[t] \in {"lock", "scan"} /\ request' = request /\ waitsFor' = waitsFor
            /\ grant'[j] = grant[j] \cup {t} /\ (Compatibly(t) \/ SoleHolder(t))
            /\ grant[j] = {u \in Trans : held[u][j] # "N"}
        BY <3>9, <2>2, <1>0, AtDecisionFacts DEF GrantHeavy, TypeOK, waitVars
      <4>2. request[j] = <<>> \/ t \in grant[j]
        BY <4>1, <2>2 DEF Compatibly, SoleHolder
      <4>3. CASE request[j] = <<>>
        <5>1. request'[j] = <<>>
          BY <4>1, <4>3
        <5> QED BY <5>1, <3>1
      <4>4. CASE t \in grant[j]
        <5>1. /\ grant'[j] = grant[j] /\ request'[j] = request[j] /\ pc[t] # "toLight"
              /\ \A v \in Trans : waitsFor'[v] = waitsFor[v]
          BY <4>1, <4>4
        <5> QED BY <5>1, <3>3
      <4> QED BY <4>2, <4>3, <4>4
    <3>10. CASE Block(t)
      BY <3>10, <2>2, <1>0, BlockEdges
    <3>11. CASE NoWait(t)
      <4>1. CASE pc[t] = "scan"
        BY <3>11, <4>1, <3>2, <2>2, <1>0 DEF NoWait, UnlinkGrants, TypeOK, At
      <4>2. CASE pc[t] # "scan"
        BY <3>11, <4>2, <3>4 DEF NoWait, AtDecision, itemVars
      <4> QED BY <4>1, <4>2
    <3>12. CASE UnlockHeavy(t)
      <4>1. pc[t] = "unlock" /\ mStatus[t] = "BEGIN" /\ ReleaseGranted(t, j, op[t].mode)
        BY <3>12, <2>2, <1>0 DEF UnlockHeavy, IInv, OpInv, Waiting, TypeOK
      <4> QED BY <4>1, <2>0, <2>2, <1>0, ReleaseEdges
    <3>13. CASE Settle(t)
      <4>1. CASE UnlinkGrants(t) /\ op' = op
        BY <4>1, <3>2, <2>2, <1>0 DEF UnlinkGrants, TypeOK, At
      <4>2. CASE UNCHANGED <<grant, waitsFor>>
        BY <3>13, <4>2, <3>4 DEF Settle, itemVars
      <4> QED BY <3>13, <4>1, <4>2 DEF Settle, thrVars
    <3>14. CASE WakeUpHead(t)
      BY <3>14, <2>2, <1>0, WakeUpEdges
    <3>15. CASE ToLightHead(t)
      BY <3>15, <3>2, <2>2 DEF ToLightHead, Resume, At
    <3>16. CASE WakeUpDone(t)
      <4>1. pc[t] = "wakeup" /\ Leave(t) /\ itemVars' = itemVars
        BY <3>16 DEF WakeUpDone
      <4>2. mStatus[t] = "BEGIN"
        BY <4>1, <1>0 DEF IInv, OpInv, Waiting, TypeOK
      <4>3. ClearRow(t) \/ waitsFor' = waitsFor
        BY <4>1 DEF Leave, waitVars
      <4> QED BY <4>1, <4>2, <4>3, <3>4, <3>5
    <3>17. CASE ToLightDone(t)
      BY <3>17, <3>1, <2>2 DEF ToLightDone
    <3>18. CASE WakeUp(t)
      BY <3>18, <3>5 DEF WakeUp, Waiting
    <3>19. CASE LeaveQueue(t) /\ MutexFree(t) /\ mStatus[t] = "BLOCKED"
      BY <3>19, <2>2, <1>0, LeaveQueueEdges
    <3>20. CASE SessionEvent(t)
      <4>1. Waiting(t) /\ MutexFree(t) /\ pc[t] # "toLight"
        BY <3>20 DEF SessionEvent, Waiting
      <4>2. CASE mStatus[t] = "BLOCKED" /\ LeaveQueue(t)
        BY <4>1, <4>2, <3>19
      <4>3. CASE mStatus[t] = "BEGIN" /\ ClearRow(t) /\ itemVars' = itemVars
        BY <4>1, <4>3, <3>5
      <4>4. CASE mStatus[t] = "BEGIN" /\ ReleaseGranted(t, j, "N")
        BY <4>1, <4>4, <2>0, <2>2, <1>0, ReleaseEdges
      <4> QED BY <3>20, <4>2, <4>3, <4>4, <2>2 DEF SessionEvent
    <3>21. ~ (\E k \in Items : UnlockNode(t, k)) /\ ~ EndDone(t)
      BY <1>3 DEF Inside, UnlockNode, EndDone
    <3> QED BY <1>3, <3>6, <3>7, <3>8, <3>9, <3>10, <3>11, <3>12, <3>13, <3>14, <3>15, <3>16, <3>17, <3>18, <3>19,
               <3>20, <3>21 DEF Step, Deadlock, TimeOut
  <2> QED BY <2>1, <2>2
<1> QED BY <1>1, <1>2, <1>3, StepCases

-----------------------------------------------------------------------------
(* The lock slots.                                                         *)

\* The slots of a transaction when one is added, or one or none is removed.
LEMMA SlotAdded ==
  ASSUME IInv, NEW t \in Trans, AccountInv(t), op[t] \in Slot, op[t] \notin ToSet(slots[t]),
         slots' = [slots EXCEPT ![t] = Append(@, op[t])]
  PROVE  /\ IsInjective(slots'[t])
         /\ \A j \in Items : SlotModes(t, j)' =
              IF j = op[t].item THEN SlotModes(t, j) \cup {op[t].mode} ELSE SlotModes(t, j)
<1>1. slots[t] \in Seq(Slot) /\ slots'[t] = Append(slots[t], op[t])
  BY DEF IInv, TypeOK
<1>2. IsInjective(slots'[t]) /\ ToSet(slots'[t]) = ToSet(slots[t]) \cup {op[t]}
  <2>1. PICK q : q = slots[t]
    OBVIOUS
  <2>2. PICK s : s = op[t]
    OBVIOUS
  <2>3. q \in Seq(Slot) /\ IsInjective(q) /\ s \in Slot /\ s \notin ToSet(q)
    BY <1>1, <2>1, <2>2 DEF AccountInv
  <2>4. IsInjective(Append(q, s)) /\ ToSet(Append(q, s)) = ToSet(q) \cup {s}
    BY <2>3, SeqAppend
  <2> QED BY <1>1, <2>1, <2>2, <2>4
<1>3. \A j \in Items, m \in LockMode :
        HasSlot(t, j, m)' <=> HasSlot(t, j, m) \/ (j = op[t].item /\ m = op[t].mode)
  BY <1>2 DEF HasSlot, Slot
<1>4. op[t].mode \in LockMode
  BY DEF Slot
<1> QED BY <1>2, <1>3, <1>4 DEF SlotModes

LEMMA SlotGone ==
  ASSUME IInv, NEW t \in Trans, AccountInv(t), NEW i \in Items, NEW m \in Mode,
         slots' = [slots EXCEPT ![t] = SlotRemoved(t, i, m)]
  PROVE  /\ IsInjective(slots'[t])
         /\ \A j \in Items : SlotModes(t, j)' =
              IF j = i THEN SlotModes(t, j) \ {m} ELSE SlotModes(t, j)
<1> DEFINE s == [item |-> i, mode |-> m]
<1>1. slots[t] \in Seq(Slot) /\ slots'[t] = SlotRemoved(t, i, m) /\ IsInjective(slots[t])
  BY DEF IInv, TypeOK, AccountInv
<1>2. IsInjective(slots'[t]) /\ ToSet(slots'[t]) = ToSet(slots[t]) \ {s}
  <2>1. CASE HasSlot(t, i, m)
    <3>1. PICK k \in DOMAIN slots[t] : slots[t][k] = s
      BY <2>1 DEF HasSlot, ToSet
    <3>2. PICK n \in DOMAIN slots[t] :
            slots[t][n] = s /\ n = CHOOSE l \in DOMAIN slots[t] : slots[t][l] = s
      BY <3>1
    <3>3. slots'[t] = RemoveAt(slots[t], n)
      BY <1>1, <2>1, <3>2 DEF SlotRemoved
    <3>4. PICK q : q = slots[t]
      OBVIOUS
    <3>5. q \in Seq(Slot) /\ IsInjective(q) /\ n \in DOMAIN q
      BY <1>1, <3>4
    <3>6. IsInjective(RemoveAt(q, n)) /\ ToSet(RemoveAt(q, n)) = ToSet(q) \ {q[n]}
      BY <3>5, SeqRemove
    <3> QED BY <3>2, <3>3, <3>4, <3>6
  <2>2. CASE ~ HasSlot(t, i, m)
    BY <1>1, <2>2 DEF HasSlot, SlotRemoved
  <2> QED BY <2>1, <2>2
<1>3. \A j \in Items, k \in LockMode :
        HasSlot(t, j, k)' <=> HasSlot(t, j, k) /\ ~ (j = i /\ k = m)
  BY <1>2 DEF HasSlot
<1> QED BY <1>2, <1>3 DEF SlotModes

\* Whatever is at work, the account of a transaction stays with its node and its slots.
LEMMA AccountKept ==
  ASSUME NEW t \in Trans, AccountInv(t), nodeFlag'[t] = nodeFlag[t], slots'[t] = slots[t],
         pc'[t] = pc[t], op'[t] = op[t], after'[t] = after[t], cvs'[t] = cvs[t],
         mStatus'[t] = mStatus[t]
  PROVE  AccountInv(t)'
<1>1. \A i \in Items : SlotModes(t, i)' = SlotModes(t, i) /\ (SlotDue(t, i)' <=> SlotDue(t, i))
  BY DEF SlotModes, HasSlot, SlotDue, Waiting
<1> QED BY <1>1 DEF AccountInv

\* A lock that is granted gets its slot.
LEMMA AccountTaken ==
  ASSUME IInv, NEW t \in Trans, AccountInv(t),
         pc[t] \in {"lightLock", "lock", "scan", "wait", "checked"},
         AddLockSlot(t), Return(t, "run"), after' = after
  PROVE  AccountInv(t)'
<1> DEFINE i == op[t].item
<1>1. op[t] \in Slot /\ i \in Items /\ op[t].mode \in LockMode /\ after[t] # "end"
  BY DEF IInv, OpInv, Slot
<1>2. op[t] \notin ToSet(slots[t]) /\ pc[t] # "end"
  BY DEF AccountInv
<1>3. slots' = [slots EXCEPT ![t] = Append(@, op[t])]
  BY DEF AddLockSlot
<1>4. /\ IsInjective(slots'[t])
      /\ \A j \in Items : SlotModes(t, j)' =
           IF j = i THEN SlotModes(t, j) \cup {op[t].mode} ELSE SlotModes(t, j)
  BY <1>1, <1>2, <1>3, SlotAdded
<1>5. \A j \in Items : nodeFlag'[t][j] =
        IF j = i THEN nodeFlag[t][j] \cup {op[t].mode} ELSE nodeFlag[t][j]
  BY <1>1 DEF AddLockSlot, IInv, TypeOK
<1>6. pc'[t] = "run" /\ after'[t] # "end" /\ \A j \in Items : ~ SlotDue(t, j)'
  BY <1>1 DEF Return, SlotDue, Waiting, IInv, TypeOK
<1>7. ASSUME NEW j \in Items PROVE nodeFlag'[t][j] = SlotModes(t, j)'
  <2>1. /\ SlotDue(t, j) => SlotModes(t, j) = {} /\ nodeFlag[t][j] = {op[t].mode} /\ j = i
        /\ ~ SlotDue(t, j) => nodeFlag[t][j] = SlotModes(t, j)
    BY <1>1, <1>2 DEF AccountInv, SlotDue
  <2> QED BY <2>1, <1>4, <1>5
<1> QED BY <1>4, <1>6, <1>7 DEF AccountInv

\* A slot, or a node, that is unlocked.
LEMMA AccountReleased ==
  ASSUME IInv, NEW t \in Trans, AccountInv(t), NEW i \in Items, NEW m \in Mode,
         ReleaseNode(t, i, m), op[t].item = i,
         \/ pc[t] \in {"lightUnlock", "unlock"} /\ m = op[t].mode
         \/ SlotDue(t, i) /\ m = "N",
         pc'[t] \in {"run", "end", "settle"}, after[t] = "end" => after'[t] = "end" \/ pc'[t] = "end"
  PROVE  AccountInv(t)'
<1>1. slots' = [slots EXCEPT ![t] = SlotRemoved(t, i, m)]
  BY DEF ReleaseNode
<1>2. /\ IsInjective(slots'[t])
      /\ \A j \in Items : SlotModes(t, j)' = IF j = i THEN SlotModes(t, j) \ {m} ELSE SlotModes(t, j)
  BY <1>1, SlotGone
<1>3. /\ nodeFlag'[t][i] = IF m = "N" THEN {} ELSE nodeFlag[t][i] \ {m}
      /\ \A j \in Items \ {i} : nodeFlag'[t][j] = nodeFlag[t][j]
  BY DEF ReleaseNode, Kept, IInv, TypeOK
<1>4. pc'[t] # "end" /\ after'[t] # "end" => pc[t] # "end" /\ after[t] # "end"
  BY DEF SlotDue, Waiting
<1>5. \A j \in Items : ~ SlotDue(t, j)'
  BY DEF SlotDue, Waiting
<1>6. ASSUME after[t] # "end", pc[t] # "end", NEW j \in Items PROVE nodeFlag'[t][j] = SlotModes(t, j)'
  <2>1. IF SlotDue(t, j) THEN SlotModes(t, j) = {} /\ nodeFlag[t][j] = {op[t].mode}
                         ELSE nodeFlag[t][j] = SlotModes(t, j)
    BY <1>6 DEF AccountInv
  <2>2. CASE pc[t] \in {"lightUnlock", "unlock"} /\ m = op[t].mode
    <3>1. m # "N" /\ ~ SlotDue(t, j)
      BY <2>2, <1>6 DEF AccountInv, Slot, LockMode, SlotDue, Waiting
    <3> QED BY <3>1, <2>1, <1>2, <1>3
  <2>3. CASE SlotDue(t, i) /\ m = "N"
    <3>1. CASE j = i
      BY <3>1, <2>1, <2>3, <1>2, <1>3
    <3>2. CASE j # i
      <4>1. ~ SlotDue(t, j)
        BY <3>2 DEF SlotDue
      <4> QED BY <4>1, <3>2, <2>1, <1>2, <1>3
    <3> QED BY <3>1, <3>2
  <2> QED BY <2>2, <2>3
<1> QED BY <1>2, <1>4, <1>5, <1>6 DEF AccountInv

\* A thread that leaves node and slots alone and stays at its request, or goes on from
\* it to a place where it has none.
LEMMA AccountMoved ==
  ASSUME NEW t \in Trans, AccountInv(t), nodeFlag'[t] = nodeFlag[t], slots'[t] = slots[t],
         \A i \in Items : ~ SlotDue(t, i) /\ ~ SlotDue(t, i)',
         \/ op'[t] = op[t] /\ pc[t] \in {"lightLock", "lock", "scan", "wait", "checked"}
         \/ pc'[t] \notin {"lightLock", "lock", "scan", "wait", "checked"},
         pc'[t] \in {"lightUnlock", "unlock"} =>
           after'[t] = "end" \/ (op'[t] \in Slot /\ after[t] # "end" /\ pc[t] # "end"),
         pc[t] = "end" \/ after[t] = "end" => pc'[t] = "end" \/ after'[t] = "end"
  PROVE  AccountInv(t)'
<1>1. \A i \in Items : SlotModes(t, i)' = SlotModes(t, i)
  BY DEF SlotModes, HasSlot
<1> QED BY <1>1 DEF AccountInv

\* What gets past the early return of lockTable has no slot yet.
LEMMA LockTableAccount ==
  ASSUME IInv, NEW t \in Trans, AccountInv(t), NEW i \in Items, NEW m \in AskedMode, LockTable(t, i, m)
  PROVE  AccountInv(t)'
<1>1. /\ pc[t] = "run" /\ NeedsLock(t, i, m) /\ m \in LockMode
      /\ op'[t] = [item |-> i, mode |-> m] /\ pc'[t] \in {"lightLock", "lock"}
      /\ nodeFlag' = nodeFlag /\ slots' = slots /\ after' = after
  BY ConstAssumption DEF LockTable, IInv, TypeOK, nodeVars
<1>2. after[t] # "end" /\ \A j \in Items : ~ SlotDue(t, j) /\ ~ SlotDue(t, j)'
  BY <1>1 DEF IInv, OpInv, SlotDue, Waiting
<1>3. op'[t] \notin ToSet(slots'[t])
  <2> SUFFICES ASSUME HasSlot(t, i, m) PROVE FALSE
    BY <1>1 DEF HasSlot
  <2>1. m \in nodeFlag[t][i]
    BY <1>1, <1>2 DEF AccountInv, SlotModes
  <2>2. Covers(held[t][i], m)
    BY <2>1 DEF IInv, ItemInv, NodeItem
  <2> QED BY <1>1, <2>2 DEF NeedsLock, Covers
<1>4. \A j \in Items : SlotModes(t, j)' = SlotModes(t, j)
  BY <1>1 DEF SlotModes, HasSlot
<1> QED BY <1>1, <1>2, <1>3, <1>4 DEF AccountInv

\* A resumed transaction gets the mask of its first lock, or keeps that of its conversion.
LEMMA ResumeAccount ==
  ASSUME IInv, NEW i \in Items, NEW u, NEW new, ResumesHead(i, u, new), \A t \in Trans : AccountInv(t)
  PROVE  \A t \in Trans : AccountInv(t)'
<1>1. /\ u \in Trans /\ u \in ToSet(request[i]) /\ Waiting(u) /\ op[u].item = i
      /\ cvs[u] <=> held[u][i] # "N"
      /\ \A v \in Trans, j \in Items : v # u \/ j # i => nodeFlag'[v][j] = nodeFlag[v][j]
      /\ nodeFlag'[u][i] = IF cvs[u] THEN nodeFlag[u][i] ELSE {op[u].mode}
      /\ nodeFlag' \in [Trans -> [Items -> SUBSET LockMode]]
      /\ mStatus[u] = "BLOCKED" /\ mStatus'[u] = "BEGIN"
      /\ \A v \in Trans \ {u} : mStatus'[v] = mStatus[v]
      /\ UNCHANGED <<slots, chain, mutex, op, cvs, scan, after, pc>>
  <2>1. Resumed(i, u, new)
    BY ResumeFacts
  <2> QED BY <2>1 DEF Resumed
<1>2. ASSUME NEW t \in Trans \ {u} PROVE AccountInv(t)'
  <2>1. nodeFlag'[t] = nodeFlag[t]
    BY <1>1 DEF IInv, TypeOK
  <2> QED BY <1>1, <2>1, AccountKept
<1>3. AccountInv(u)'
  <2>1. pc[u] \in {"wait", "checked"} /\ after[u] # "end"
    BY <1>1 DEF Waiting, IInv, OpInv
  <2>2. \A j \in Items : ~ SlotDue(u, j) /\ nodeFlag[u][j] = SlotModes(u, j)
    BY <1>1, <2>1 DEF AccountInv, SlotDue
  <2>3. \A j \in Items : SlotModes(u, j)' = SlotModes(u, j) /\ (SlotDue(u, j)' <=> ~ cvs[u] /\ j = i)
    BY <1>1, <2>1 DEF SlotModes, HasSlot, SlotDue, Waiting
  <2>4. ~ cvs[u] => nodeFlag[u][i] = {}
    <3> SUFFICES ASSUME ~ cvs[u], NEW m \in nodeFlag[u][i] PROVE FALSE
      OBVIOUS
    <3>1. Covers("N", m) /\ m \in LockMode
      BY <1>1 DEF IInv, TypeOK, ItemInv, NodeItem
    <3> QED BY <3>1 DEF Covers, Conversion, mConversionTBL, LockMode, Mode
  <2> QED BY <1>1, <2>1, <2>2, <2>3, <2>4 DEF AccountInv
<1> QED BY <1>2, <1>3

\* A wake-up gives the head of the queue the mode it held converted by the one it asked
\* for; the mode of the group, which the code assigns to a sole holder, is no other.
LEMMA HeadConverted ==
  ASSUME IInv, NEW t \in Trans, NEW i \in Items, op[t].item = i, WakeUpHead(t) \/ ToLightHead(t),
         NEW u, u = Head(request[i]), NEW new, new = Conversion(held[u][i], op[u].mode)
  PROVE  ResumesHead(i, u, new)
<1>1. request[i] # <<>>
  BY DEF WakeUpHead, ToLightHead
<1>2. request[i] \in Seq(Trans) /\ IsInjective(request[i])
  BY DEF IInv, TypeOK, ItemInv, WaitItem
<1>3. u \in Trans /\ u \in ToSet(request[i])
  BY <1>1, <1>2, QueueTail
<1>4. op[u].mode \in Mode /\ held[u][i] \in Mode /\ (cvs[u] <=> held[u][i] # "N")
  BY <1>3 DEF IInv, TypeOK, ItemInv, WaitItem
<1>5. new \in Mode
  <2>1. PICK a \in Mode, b \in Mode : a = held[u][i] /\ b = op[u].mode
    BY <1>4
  <2> QED BY <2>1, ConversionType
<1>6. CASE ToLightHead(t)
  BY <1>1, <1>5, <1>6 DEF ToLightHead, ResumesHead
<1>7. CASE WakeUpHead(t)
  <2>1. Resume(u, i, IF Compatible(op[u].mode, mGrantLockMode[i]) THEN new
                     ELSE Conversion(mGrantLockMode[i], op[u].mode))
    BY <1>7 DEF WakeUpHead
  <2>2. CASE Compatible(op[u].mode, mGrantLockMode[i])
    BY <1>1, <1>5, <2>1, <2>2 DEF ResumesHead
  <2>3. CASE ~ Compatible(op[u].mode, mGrantLockMode[i])
    <3>1. Cardinality(grant[i]) = 1 /\ cvs[u] /\ pc[t] = "wakeup"
      BY <1>7, <2>3 DEF WakeUpHead, Grantable
    <3>2. Summary(i) /\ \A v \in Trans : ~ Unseen(v, i)
      BY <3>1, LoopSummary
    <3>3. u \in grant[i]
      BY <1>3, <1>4, <3>1, <3>2 DEF Summary
    <3>4. mGrantLockMode[i] = held[u][i]
      BY <3>1, <3>2, <3>3, SoleHolderMode
    <3> QED BY <1>1, <1>5, <2>1, <2>3, <3>4 DEF ResumesHead
  <2> QED BY <2>2, <2>3
<1> QED BY <1>6, <1>7

\* Every step keeps the account of every transaction.
LEMMA AccountStep ==
  ASSUME IInv, \A t \in Trans : AccountInv(t), [Next]_vars
  PROVE  \A t \in Trans : AccountInv(t)'
<1>0. TypeOK /\ OpInv
  BY DEF IInv
<1>1. CASE UNCHANGED vars
  BY <1>1, AccountKept DEF vars, nodeVars, thrVars
<1>2. ASSUME NEW t \in Trans, Call(t) \/ (\E i \in Items : UnlockNode(t, i)) \/ EndDone(t)
      PROVE  \A v \in Trans : AccountInv(v)'
  <2>1. /\ UNCHANGED <<mStatus, cvs, held, nodeFlag>>
        /\ \A u \in Trans \ {t} : pc'[u] = pc[u] /\ op'[u] = op[u] /\ after'[u] = after[u]
    BY <1>2, OutsideFrame
  <2>2. \A u \in Trans \ {t} : slots'[u] = slots[u]
    BY <1>2 DEF Call, LockTable, UnlockSlot, EndTrans, UnlockNode, EndDone, nodeVars, TypeOK, IInv
  <2>3. \A u \in Trans \ {t} : AccountInv(u)'
    BY <2>1, <2>2, AccountKept
  <2>4. AccountInv(t)'
    <3>1. CASE \E i \in Items, m \in AskedMode : LockTable(t, i, m)
      BY <3>1, LockTableAccount
    <3>2. ASSUME NEW k \in DOMAIN slots[t], UnlockSlot(t, k) PROVE AccountInv(t)'
      <4>1. /\ pc[t] = "run" /\ pc'[t] \in {"lightUnlock", "unlock"} /\ op'[t] = slots[t][k]
            /\ slots' = slots /\ after' = after
        BY <3>2, <1>0 DEF UnlockSlot, TypeOK, nodeVars
      <4>2. op'[t] \in Slot /\ after[t] # "end"
        <5>1. slots[t] \in Seq(Slot)
          BY <1>0 DEF TypeOK
        <5>2. slots[t][k] \in Slot
          BY <5>1, <3>2
        <5>3. after[t] # "end"
          BY <4>1, <1>0 DEF OpInv
        <5> QED BY <4>1, <5>2, <5>3
      <4>3. \A i \in Items : ~ SlotDue(t, i) /\ ~ SlotDue(t, i)'
        BY <4>1 DEF SlotDue, Waiting
      <4> QED BY <2>1, <4>1, <4>2, <4>3, AccountMoved
    <3>3. CASE EndTrans(t) \/ \E i \in Items : UnlockNode(t, i)
      <4>1. /\ pc[t] \in {"run", "end"} /\ slots' = slots
            /\ \/ pc'[t] = "end"
               \/ pc'[t] \in {"lightUnlock", "unlock"} /\ after'[t] = "end"
        BY <3>3, <1>0 DEF EndTrans, UnlockNode, TypeOK, nodeVars, thrVars
      <4>2. \A i \in Items : ~ SlotDue(t, i) /\ ~ SlotDue(t, i)'
        BY <4>1 DEF SlotDue, Waiting
      <4> QED BY <2>1, <4>1, <4>2, AccountMoved
    <3>4. CASE EndDone(t)
      <4>1. pc'[t] = "run" /\ slots'[t] = <<>> /\ \A i \in Items : held[t][i] = "N"
        BY <3>4, <1>0 DEF EndDone, TypeOK
      <4>2. \A i \in Items : nodeFlag[t][i] = {}
        <5> SUFFICES ASSUME NEW i \in Items, NEW m \in nodeFlag[t][i] PROVE FALSE
          OBVIOUS
        <5>1. Covers("N", m) /\ m \in LockMode
          BY <4>1, <1>0 DEF IInv, TypeOK, ItemInv, NodeItem
        <5> QED BY <5>1 DEF Covers, Conversion, mConversionTBL, LockMode, Mode
      <4>3. \A i \in Items : SlotModes(t, i)' = {} /\ ~ SlotDue(t, i)'
        BY <4>1 DEF SlotModes, HasSlot, SlotDue, Waiting, ToSet
      <4>4. IsInjective(slots'[t])
        BY <4>1, QueueEmpty
      <4> QED BY <4>1, <4>2, <4>3, <4>4, <2>1 DEF AccountInv
    <3> QED BY <1>2, <3>1, <3>2, <3>3, <3>4 DEF Call
  <2> QED BY <2>3, <2>4
<1>3. ASSUME NEW t \in Trans, Step(t), Inside(t)
      PROVE  \A v \in Trans : AccountInv(v)'
  <2> DEFINE i == op[t].item
             Others == /\ \A u \in Trans \ {t} : nodeFlag'[u] = nodeFlag[u]
                       /\ \A u \in Trans \ {t} : mStatus'[u] = mStatus[u]
  <2>1. /\ i \in Items /\ op[t].mode \in Mode
        /\ \A u \in Trans \ {t} :
             /\ pc'[u] = pc[u] /\ op'[u] = op[u] /\ cvs'[u] = cvs[u] /\ after'[u] = after[u]
             /\ slots'[u] = slots[u]
    <3>1. op[t].mode \in Mode
      BY <1>0 DEF TypeOK
    <3> QED BY <1>3, <3>1, InsideFrame
  <2>2. ASSUME Others, AccountInv(t)' PROVE \A v \in Trans : AccountInv(v)'
    BY <2>1, <2>2, AccountKept
  <2>3. ASSUME Others, nodeFlag' = nodeFlag, slots' = slots,
               mStatus[t] = "BLOCKED" \/ ~ Waiting(t), mStatus'[t] = "BLOCKED" \/ ~ Waiting(t)',
               \/ op' = op /\ pc[t] \in {"lightLock", "lock", "scan", "wait", "checked"}
               \/ pc'[t] \notin {"lightLock", "lock", "scan", "wait", "checked"},
               pc'[t] \notin {"lightUnlock", "unlock"},
               after[t] = "end" => pc'[t] = "end" \/ after'[t] = "end"
        PROVE  \A v \in Trans : AccountInv(v)'
    <3>1. pc[t] # "end" /\ \A j \in Items : ~ SlotDue(t, j) /\ ~ SlotDue(t, j)'
      BY <2>3, <1>3 DEF SlotDue, Waiting, Inside
    <3>2. AccountInv(t)'
      BY <2>3, <3>1, AccountMoved
    <3> QED BY <3>2, <2>2, <2>3
  <2>4. CASE LightLock(t) \/ LockInternalLight(t) \/ GrantHeavy(t) \/ WakeUp(t)
    <3>1. /\ pc[t] \in {"lightLock", "lock", "scan", "wait", "checked"}
          /\ AddLockSlot(t) /\ Return(t, "run") /\ after' = after /\ mStatus' = mStatus
      BY <2>4 DEF LightLock, LockInternalLight, GrantLight, GrantHeavy, AtDecision, WakeUp, Waiting
    <3>2. Others
      BY <3>1, <1>0 DEF AddLockSlot, TypeOK
    <3> QED BY <3>1, <3>2, <2>2, AccountTaken
  <2>5. CASE BeginHeavy(t) \/ (\E s \in Trans : Scan(t, s)) \/ Block(t) \/ CheckDeadlock(t)
    <3>1. /\ nodeFlag' = nodeFlag /\ slots' = slots /\ op' = op /\ after' = after
          /\ pc[t] \in {"lock", "scan", "wait"} /\ pc'[t] \in {"scan", "wait", "checked"}
          /\ \/ mStatus' = mStatus /\ (mStatus[t] = "BLOCKED" \/ pc'[t] = "scan")
             \/ mStatus' = [mStatus EXCEPT ![t] = "BLOCKED"] /\ pc[t] # "wait"
          /\ pc[t] = "wait" => mStatus[t] = "BLOCKED"
      BY <2>5, <1>0 DEF TypeOK, BeginHeavy, Scan, Block, AtDecision, CheckDeadlock, nodeVars, thrVars
    <3>2. after[t] # "end"
      BY <3>1, <1>0 DEF OpInv
    <3>3. Others /\ (mStatus'[t] = "BLOCKED" \/ ~ Waiting(t)') /\ (mStatus[t] = "BLOCKED" \/ ~ Waiting(t))
      BY <3>1, <1>0 DEF TypeOK, Waiting
    <3> QED BY <3>1, <3>2, <3>3, <2>3
  <2>6. CASE NoWait(t) \/ Settle(t) \/ WakeUpDone(t) \/ ToLightDone(t)
    <3>1. /\ nodeFlag' = nodeFlag /\ slots' = slots /\ mStatus' = mStatus
          /\ pc[t] \in {"lock", "scan", "settle", "wakeup", "toLight"}
          /\ \/ pc'[t] \in {"toLight", "run", "wakeup"} /\ after' = after
             \/ pc'[t] \in {"run", "end"}
          /\ pc'[t] \in {"run", "end"} => pc[t] = "lock" \/ (after[t] = "end" => pc'[t] = "end")
      BY <2>6, <1>0 DEF TypeOK, NoWait, AtDecision, Settle, UnlinkGrants, WakeUpDone, ToLightDone, Leave,
         Return, nodeVars, thrVars
    <3>2. after[t] = "end" => pc'[t] = "end" \/ after'[t] = "end"
      BY <3>1, <1>0 DEF OpInv
    <3>3. Others /\ ~ Waiting(t) /\ ~ Waiting(t)'
      BY <3>1 DEF Waiting
    <3>4. /\ pc'[t] \notin {"lightLock", "lock", "scan", "wait", "checked"}
          /\ pc'[t] \notin {"lightUnlock", "unlock"}
      BY <3>1
    <3> QED BY <3>1, <3>2, <3>3, <3>4, <2>3
  <2>7. CASE LightUnlock(t) \/ UnlockHeavy(t)
    <3>1. /\ ReleaseNode(t, i, op[t].mode) /\ pc[t] \in {"lightUnlock", "unlock"} /\ mStatus' = mStatus
          /\ \/ pc'[t] = "settle" /\ after' = after
             \/ pc'[t] = after[t]
      BY <2>7, <1>0 DEF TypeOK, LightUnlock, UnlockHeavy, ReleaseGranted, Return, thrVars
    <3>2. pc'[t] \in {"run", "end", "settle"} /\ (after[t] = "end" => after'[t] = "end" \/ pc'[t] = "end")
      BY <3>1, <1>0 DEF TypeOK, OpInv
    <3>3. Others
      BY <3>1, <1>0 DEF ReleaseNode, TypeOK
    <3>4. AccountInv(t)'
      BY <3>1, <3>2, <2>1, AccountReleased
    <3> QED BY <3>3, <3>4, <2>2
  <2>8. CASE WakeUpHead(t) \/ ToLightHead(t)
    <3>1. PICK u, new : u = Head(request[i]) /\ new = Conversion(held[u][i], op[u].mode)
      OBVIOUS
    <3>2. ResumesHead(i, u, new)
      BY <2>8, <3>1, <2>1, <1>3, HeadConverted
    <3> QED BY <3>2, <2>1, ResumeAccount
  <2>9. CASE mStatus[t] = "BLOCKED" /\ LeaveQueue(t)
    <3>1. /\ nodeFlag' = nodeFlag /\ slots' = slots /\ pc'[t] = "settle" /\ after'[t] = "abort"
          /\ mStatus' = [mStatus EXCEPT ![t] = "BEGIN"]
      BY <2>9, <1>0 DEF LeaveQueue, TypeOK, nodeVars
    <3>2. Others /\ ~ Waiting(t)' /\ after[t] # "end"
      BY <3>1, <2>9, <1>0 DEF TypeOK, Waiting, OpInv
    <3> QED BY <3>1, <3>2, <2>3, <2>9
  <2>10. CASE SessionEvent(t) /\ mStatus[t] = "BEGIN"
    <3>1. /\ Waiting(t) /\ mStatus' = mStatus /\ pc'[t] \in {"run", "settle"}
          /\ \/ cvs[t] /\ nodeFlag' = nodeFlag /\ slots' = slots
             \/ ~ cvs[t] /\ ReleaseNode(t, i, "N")
      BY <2>10, <1>0 DEF SessionEvent, ReleaseGranted, Return, TypeOK, nodeVars
    <3>2. after[t] # "end" /\ pc[t] # "end" /\ ~ Waiting(t)'
      BY <3>1, <1>0 DEF OpInv, Waiting
    <3>3. CASE cvs[t] /\ nodeFlag' = nodeFlag /\ slots' = slots
      <4>1. \A j \in Items : ~ SlotDue(t, j) /\ ~ SlotDue(t, j)'
        BY <3>3, <3>2 DEF SlotDue
      <4>2. AccountInv(t)'
        BY <3>1, <3>2, <3>3, <4>1, AccountMoved
      <4> QED BY <3>1, <3>3, <4>2, <2>2
    <3>4. CASE ~ cvs[t] /\ ReleaseNode(t, i, "N")
      <4>1. SlotDue(t, i) /\ "N" \in Mode
        BY <3>1, <3>4, <2>10 DEF SlotDue, Mode
      <4>2. Others
        BY <3>1, <3>4, <1>0 DEF ReleaseNode, TypeOK
      <4>3. AccountInv(t)'
        BY <3>1, <3>2, <3>4, <4>1, <2>1, AccountReleased
      <4> QED BY <4>2, <4>3, <2>2
    <3> QED BY <3>1, <3>3, <3>4
  <2>11. CASE SessionEvent(t) /\ mStatus[t] = "BLOCKED"
    BY <2>9, <2>11 DEF SessionEvent
  <2>12. CASE SessionEvent(t)
    BY <2>10, <2>11, <2>12, <1>0 DEF TypeOK
  <2>13. ~ (\E k \in Items : UnlockNode(t, k)) /\ ~ EndDone(t)
    BY <1>3 DEF Inside, UnlockNode, EndDone
  <2> QED BY <1>3, <2>4, <2>5, <2>6, <2>7, <2>8, <2>9, <2>12, <2>13 DEF Step, Deadlock, TimeOut
<1> QED BY <1>1, <1>2, <1>3, StepCases

-----------------------------------------------------------------------------
(* What a step may never do.                                               *)

\* How the holdings change: the thread at work is granted what it asks for, gives up
\* what it holds, or wakes up the head of the queue.
LEMMA HoldingsStep ==
  ASSUME IInv, [Next]_vars
  PROVE  \/ held' = held
         \/ \E v \in Trans : Step(v) /\ op[v].item \in Items /\
              \/ LightLock(v) \/ LockInternalLight(v) \/ GrantHeavy(v)
              \/ ~ Waiting(v)' /\ \E m \in Mode : ReleaseNode(v, op[v].item, m)
              \/ WakeUpHead(v) \/ ToLightHead(v)
<1>0. TypeOK
  BY DEF IInv
<1>1. CASE UNCHANGED vars
  BY <1>1 DEF vars, nodeVars
<1>2. CASE \E v \in Trans : Call(v) \/ (\E i \in Items : UnlockNode(v, i)) \/ EndDone(v)
  BY <1>2, OutsideFrame
<1>3. ASSUME NEW v \in Trans, Step(v), Inside(v)
      PROVE  \/ held' = held
             \/ /\ op[v].item \in Items
                /\ \/ LightLock(v) \/ LockInternalLight(v) \/ GrantHeavy(v)
                   \/ ~ Waiting(v)' /\ \E m \in Mode : ReleaseNode(v, op[v].item, m)
                   \/ WakeUpHead(v) \/ ToLightHead(v)
  <2>1. op[v].item \in Items /\ op[v].mode \in Mode /\ "N" \in Mode
    BY <1>0, <1>3, InsideFrame DEF TypeOK, Mode
  <2>2. CASE LightUnlock(v) \/ UnlockHeavy(v)
    <3>1. ReleaseNode(v, op[v].item, op[v].mode)
      BY <2>2 DEF LightUnlock, UnlockHeavy, ReleaseGranted
    <3>2. ~ Waiting(v)'
      BY <2>2, <1>0 DEF LightUnlock, UnlockHeavy, Return, Waiting, TypeOK
    <3> QED BY <2>1, <3>1, <3>2
  <2>3. CASE SessionEvent(v)
    <3>1. ~ Waiting(v)'
      BY <2>3, <1>0 DEF SessionEvent, LeaveQueue, Return, Waiting, TypeOK
    <3>2. UNCHANGED held \/ ReleaseNode(v, op[v].item, "N")
      BY <2>3 DEF SessionEvent, LeaveQueue, ReleaseGranted, nodeVars
    <3> QED BY <2>1, <3>1, <3>2
  <2>4. CASE BeginHeavy(v) \/ (\E s \in Trans : Scan(v, s)) \/ Block(v) \/ NoWait(v) \/ Settle(v)
          \/ WakeUpDone(v) \/ ToLightDone(v) \/ WakeUp(v) \/ CheckDeadlock(v) \/ Deadlock(v) \/ TimeOut(v)
    BY <2>4 DEF BeginHeavy, Scan, Block, NoWait, Settle, WakeUpDone, ToLightDone, Leave, WakeUp, CheckDeadlock,
       Deadlock, TimeOut, LeaveQueue, nodeVars
  <2>5. ~ (\E k \in Items : UnlockNode(v, k)) /\ ~ EndDone(v)
    BY <1>3 DEF Inside, UnlockNode, EndDone
  <2> QED BY <1>3, <2>1, <2>2, <2>3, <2>4, <2>5 DEF Step
<1> QED BY <1>1, <1>2, <1>3, StepCases

\* A grant in a list, or of the item's own lists, that overtakes nobody.
LEMMA GrantInTurn ==
  ASSUME IInv, NEW v \in Trans, LightLock(v) \/ LockInternalLight(v) \/ GrantHeavy(v),
         NEW t \in Trans, NEW i \in Items, held[t][i] = "N", held'[t][i] # "N"
  PROVE  request[i] = <<>>
<1>1. t = v /\ i = op[v].item
  BY DEF LightLock, LockInternalLight, GrantLight, GrantHeavy, IInv, TypeOK
<1>2. CASE LightLock(v)
  <2>1. Light(i) \/ Unseen(v, i)
    BY <1>1, <1>2 DEF LightLock, HoldsListMutex, IInv, ItemInv, ListMutexItem
  <2> QED BY <2>1 DEF Unseen, Scanned, IInv, ItemInv, LightItem, TransitionItem
<1>3. CASE LockInternalLight(v)
  BY <1>1, <1>3 DEF LockInternalLight, IInv, ItemInv, LightItem
<1>4. CASE GrantHeavy(v)
  BY <1>1, <1>4 DEF GrantHeavy, Compatibly, SoleHolder
<1> QED BY <1>2, <1>3, <1>4

\* Nobody is granted ahead of the queue: a transaction that held nothing on an item
\* gets in, while requests are queued, only as their head (lockTableInternal, the light
\* path and the scan that ends it, wakeupRequestLockNodeInLockItem, toLightMode).
THEOREM QueueRespected == Spec => NoOvertaking
<1>1. IInv /\ [Next]_vars =>
        \A i \in Items, t \in Trans :
          held[t][i] = "N" /\ held'[t][i] # "N" /\ request[i] # <<>> => t = Head(request[i])
  <2> SUFFICES ASSUME IInv, [Next]_vars, NEW i \in Items, NEW t \in Trans,
                      held[t][i] = "N", held'[t][i] # "N", request[i] # <<>>
               PROVE  t = Head(request[i])
    OBVIOUS
  <2>1. PICK v \in Trans : /\ op[v].item \in Items
                           /\ \/ LightLock(v) \/ LockInternalLight(v) \/ GrantHeavy(v)
                              \/ \E m \in Mode : ReleaseNode(v, op[v].item, m)
                              \/ WakeUpHead(v) \/ ToLightHead(v)
    BY HoldingsStep
  <2>2. ASSUME NEW m \in Mode, ReleaseNode(v, op[v].item, m) PROVE FALSE
    <3>1. t = v /\ i = op[v].item /\ held'[t][i] = Decision(Kept(t, i, m))
      BY <2>2 DEF ReleaseNode, IInv, TypeOK
    <3>2. PICK new : new = Decision(Kept(t, i, m))
      OBVIOUS
    <3>3. new \in Mode /\ Covers("N", new)
      BY <2>2, <3>1, <3>2, ReleaseNodeFacts DEF IInv, ItemInv
    <3> QED BY <3>1, <3>2, <3>3, CoversOrder
  <2>3. CASE WakeUpHead(v) \/ ToLightHead(v)
    <3>1. PICK u, new, j : /\ j = op[v].item /\ u = Head(request[j])
                           /\ new = Conversion(held[u][j], op[u].mode)
      OBVIOUS
    <3>2. ResumesHead(j, u, new)
      BY <2>1, <2>3, <3>1, HeadConverted
    <3>3. Resumed(j, u, new)
      BY <2>1, <3>1, <3>2, ResumeFacts
    <3>4. t = u /\ i = j
      BY <2>1, <3>1, <3>3 DEF Resumed
    <3> QED BY <3>1, <3>4
  <2> QED BY <2>1, <2>2, <2>3, GrantInTurn
<1> QED BY <1>1, Invariance, PTL DEF Spec, NoOvertaking

\* While a transaction is suspended, what it holds is changed only by the thread that
\* resumes it, into its conversion (smxTrans::resume, called by the wake-up and by
\* toLightMode; the group mode that a sole holder is given is that conversion).
THEOREM HandsOff == Spec => HeldChangesHands
<1>1. IInv /\ [Next]_vars =>
        \A t \in Trans : held'[t] # held[t] /\ Waiting(t) /\ Waiting(t)' =>
          /\ mStatus[t] = "BLOCKED" /\ mStatus'[t] = "BEGIN"
          /\ held'[t][op[t].item] = Conversion(held[t][op[t].item], op[t].mode)
  <2> SUFFICES ASSUME IInv, [Next]_vars, NEW t \in Trans, held'[t] # held[t], Waiting(t), Waiting(t)'
               PROVE  /\ mStatus[t] = "BLOCKED" /\ mStatus'[t] = "BEGIN"
                      /\ held'[t][op[t].item] = Conversion(held[t][op[t].item], op[t].mode)
    OBVIOUS
  <2>1. PICK v \in Trans : /\ op[v].item \in Items
                           /\ \/ LightLock(v) \/ LockInternalLight(v) \/ GrantHeavy(v)
                              \/ ~ Waiting(v)' /\ \E m \in Mode : ReleaseNode(v, op[v].item, m)
                              \/ WakeUpHead(v) \/ ToLightHead(v)
    BY HoldingsStep
  <2>2. ASSUME LightLock(v) \/ LockInternalLight(v) \/ GrantHeavy(v) PROVE FALSE
    <3>1. t = v /\ pc'[v] = "run"
      BY <2>2 DEF LightLock, LockInternalLight, GrantLight, GrantHeavy, Return, IInv, TypeOK
    <3> QED BY <3>1 DEF Waiting
  <2>3. ASSUME ~ Waiting(v)', NEW m \in Mode, ReleaseNode(v, op[v].item, m) PROVE FALSE
    <3>1. t = v
      BY <2>3 DEF ReleaseNode, IInv, TypeOK
    <3> QED BY <3>1, <2>3
  <2>4. CASE WakeUpHead(v) \/ ToLightHead(v)
    <3>1. PICK u, new, j : /\ j = op[v].item /\ u = Head(request[j])
                           /\ new = Conversion(held[u][j], op[u].mode)
      OBVIOUS
    <3>2. ResumesHead(j, u, new)
      BY <2>1, <2>4, <3>1, HeadConverted
    <3>3. Resumed(j, u, new)
      BY <2>1, <3>1, <3>2, ResumeFacts
    <3>4. t = u
      BY <2>1, <3>1, <3>2 DEF ResumesHead, Resume, IInv, TypeOK
    <3>5. op[u].item = j /\ held'[u][j] = new /\ mStatus[u] = "BLOCKED" /\ mStatus'[u] = "BEGIN"
      BY <3>3 DEF Resumed
    <3> QED BY <3>1, <3>4, <3>5
  <2> QED BY <2>1, <2>2, <2>3, <2>4
<1> QED BY <1>1, Invariance, PTL DEF Spec, HeldChangesHands

-----------------------------------------------------------------------------
(* The parts together.                                                     *)

LEMMA InitWait == Init => WaitInv
<1> SUFFICES ASSUME Init PROVE WaitInv
  OBVIOUS
<1>1. \A i \in Items : QueueItem(i) /\ EdgeItem(i)
  BY QueueEmpty DEF Init, QueueItem, EdgeItem
<1>2. \A t \in Trans : ChainInv(t) /\ AccountInv(t)
  BY QueueEmpty DEF Init, ChainInv, AccountInv, SlotModes, HasSlot, SlotDue, Waiting
<1> QED BY <1>1, <1>2 DEF WaitInv

LEMMA WaitStep == IInv /\ WaitInv /\ [Next]_vars => WaitInv'
BY QueueStep, EdgeStep, ChainStep, AccountStep DEF WaitInv

\* All of the invariant, in every state.
THEOREM WaitInvariance == Spec => [](IInv /\ WaitInv)
BY InitInv, NextInv, InitWait, WaitStep, PTL DEF Spec

\* No lost wake-up: a request that could be granted is never left asleep in the queue
\* (wakeupRequestLockNodeInLockItem after every unlock, time-out, deadlock and session
\* event; the overtaking rule of lockTableInternal keeps later grants from undoing it).
THEOREM WakeUpsComplete == Spec => []NoLostWakeup
<1>1. WaitInv => NoLostWakeup
  BY DEF WaitInv, QueueItem, NoLostWakeup
<1> QED BY <1>1, WaitInvariance, PTL

\* Whoever keeps a queued transaction waiting, by what it holds or by its place in the
\* queue, has its column in the row.
LEMMA ObstacleSeen ==
  ASSUME IInv, WaitInv, NEW t \in Trans, NEW u \in Trans, Obstructs(u, t), ~ ToLight(op[t].item)
  PROVE  u \in waitsFor[t]
<1> DEFINE i == op[t].item
<1>1. i \in Items /\ op[t].mode \in Mode /\ mStatus[t] = "BLOCKED"
  BY DEF Obstructs, IInv, OpInv, Waiting, Slot, LockMode
<1>2. t \in ToSet(request[i])
  BY <1>1 DEF IInv, ItemInv, WaitItem
<1>3. request[i] # <<>>
  BY <1>2, QueueEmpty
<1>4. Summary(i) /\ \A v \in Trans : ~ Unseen(v, i)
  BY <1>1, <1>3 DEF IInv, ItemInv, LightItem, TransitionItem, HeavyItem, Scanned, Unseen
<1>5. u # t /\ (u \in grant[i] \/ Ahead(u, t, request[i]))
  <2>1. ~ Compatible(held[u][i], op[t].mode) => held[u][i] # "N"
    BY <1>1 DEF Compatible, mCompatibleTBL
  <2>2. held[u][i] # "N" => u \in grant[i]
    BY <1>4 DEF Summary
  <2> QED BY <2>1, <2>2 DEF Obstructs, Ahead
<1> QED BY <1>1, <1>2, <1>5 DEF WaitInv, EdgeItem

\* isCycle misses no obstacle: whoever keeps a suspended transaction waiting, by what it
\* holds or by its place in the queue, has its column in that transaction's row
\* (registTblLockWaitListByReq, ByGrant; clearWaitTableRows).
THEOREM WaitForTableComplete == Spec => []WaitEdgesComplete
<1>1. IInv /\ WaitInv => WaitEdgesComplete
  <2> SUFFICES ASSUME IInv, WaitInv, NEW t \in Trans, mStatus[t] = "BLOCKED", mutex[op[t].item] = NoTrans,
                      NEW u \in Trans, Obstructs(u, t)
               PROVE  u \in waitsFor[t]
    BY DEF WaitEdgesComplete
  <2>1. op[t].item \in Items
    BY DEF IInv, OpInv, Waiting, Slot
  <2>2. ~ ToLight(op[t].item)
    BY <2>1, LoopNone DEF IInv, ItemInv
  <2> QED BY <2>2, ObstacleSeen
<1> QED BY <1>1, WaitInvariance, PTL

\* The slots account for the node: between two calls a transaction's mask is that of its
\* slots, no slot is linked twice, and its mode covers them (addLockSlot,
\* removeLockSlot, and the granted request that gets its slot when its owner wakes up).
THEOREM SlotsAccounted == Spec => []SlotsAccountForNode
<1>1. IInv /\ WaitInv => SlotsAccountForNode
  <2> SUFFICES ASSUME IInv, WaitInv, NEW t \in Trans
               PROVE  /\ IsInjective(slots[t])
                      /\ pc[t] \in {"run", "lock", "lightLock"} => \A i \in Items :
                           /\ nodeFlag[t][i] = SlotModes(t, i)
                           /\ Covers(held[t][i], Decision(nodeFlag[t][i]))
    BY DEF SlotsAccountForNode, SlotModes, Covers, IsInjective
  <2>1. ASSUME pc[t] \in {"run", "lock", "lightLock"}, NEW i \in Items
        PROVE  nodeFlag[t][i] = SlotModes(t, i)
    BY <2>1 DEF WaitInv, AccountInv, SlotDue, Waiting, IInv, OpInv
  <2>2. ASSUME NEW i \in Items PROVE Covers(held[t][i], Decision(nodeFlag[t][i]))
    <3>1. nodeFlag[t][i] \in SUBSET LockMode /\ held[t][i] \in Mode
      BY DEF IInv, TypeOK
    <3>2. \A m \in nodeFlag[t][i] : Covers(held[t][i], m)
      BY DEF IInv, ItemInv, NodeItem
    <3>3. PICK f : f = nodeFlag[t][i]
      OBVIOUS
    <3>4. PICK h : h = held[t][i]
      OBVIOUS
    <3> QED BY <3>1, <3>2, <3>3, <3>4, DecisionIsJoin
  <2>3. IsInjective(slots[t])
    BY DEF WaitInv, AccountInv
  <2> QED BY <2>1, <2>2, <2>3
<1> QED BY <1>1, WaitInvariance, PTL

-----------------------------------------------------------------------------
(* No deadlock stays undetected.                                           *)

\* What one more round of isCycle finds.
Grow(t, F) == F \cup {v \in Trans \ chain[t] : \E u \in F : v \in waitsFor[u]}

\* The rounds that PathFrom counts.
Rounds(g, t, N) == g = [n \in 1 .. N |-> IF n = 1 THEN waitsFor[t] ELSE Grow(t, g[n - 1])]

LEMMA RoundsExist ==
  ASSUME NEW t, NEW N \in Nat \ {0}
  PROVE  \E g : Rounds(g, t, N)
<1> USE DEF Rounds
<1> DEFINE S == {k \in Nat : \E g : Rounds(g, t, k)}
<1>1. 1 \in S
  <2>1. Rounds([n \in 1 .. 1 |-> waitsFor[t]], t, 1)
    OBVIOUS
  <2> QED BY <2>1
<1>2. ASSUME NEW k \in 1 .. N - 1, k \in S PROVE k + 1 \in S
  <2>1. PICK g : Rounds(g, t, k)
    BY <1>2
  <2> DEFINE g2 == [n \in 1 .. k + 1 |-> IF n = k + 1 THEN Grow(t, g[k]) ELSE g[n]]
  <2>2. ASSUME NEW n \in 1 .. k + 1
        PROVE  g2[n] = IF n = 1 THEN waitsFor[t] ELSE Grow(t, g2[n - 1])
    <3>1. CASE n = k + 1
      BY <3>1, <1>2
    <3>2. CASE n # k + 1
      <4>1. n \in 1 .. k /\ g[n] = IF n = 1 THEN waitsFor[t] ELSE Grow(t, g[n - 1])
        BY <2>1, <3>2, <1>2
      <4>2. n # 1 => n - 1 \in 1 .. k + 1 /\ n - 1 # k + 1
        BY <4>1, <1>2
      <4> QED BY <4>1, <4>2, <3>2
    <3> QED BY <3>1, <3>2
  <2>3. g2 = [n \in 1 .. k + 1 |-> g2[n]]
    OBVIOUS
  <2> HIDE DEF g2
  <2>4. Rounds(g2, t, k + 1)
    BY <2>2, <2>3
  <2> QED BY <2>4, <1>2
<1> HIDE DEF S
<1>3. 1 .. N \subseteq S
  <2>1. S \in SUBSET Nat
    BY DEF S
  <2> QED BY <2>1, <1>1, <1>2, UpTo
<1> QED BY <1>3 DEF S

\* What isCycle has found at the full length is closed under the edges, but for the
\* columns that are linked in the row it started from.
LEMMA PathClosed ==
  ASSUME IsFiniteSet(Trans), TypeOK, NEW t \in Trans
  PROVE  /\ waitsFor[t] \subseteq PathFrom(t)
         /\ \A u \in PathFrom(t) : u \in Trans /\ waitsFor[u] \subseteq PathFrom(t) \cup chain[t]
<1> DEFINE N == Cardinality(Trans)
<1>1. N \in Nat \ {0}
  BY FS_CardinalityType, FS_EmptySet
<1>2. PICK f : Rounds(f, t, N) /\ PathFrom(t) = f[N]
  <2>1. \E g : Rounds(g, t, N)
    BY <1>1, RoundsExist
  <2>2. PathFrom(t) = (CHOOSE g : Rounds(g, t, N))[N]
    BY DEF PathFrom, Rounds, Grow
  <2> QED BY <2>1, <2>2
<1>3. f[1] = waitsFor[t] /\ \A n \in 1 .. N - 1 : f[n + 1] = Grow(t, f[n])
  BY <1>1, <1>2 DEF Rounds
<1> HIDE DEF N
<1> DEFINE Q(n) == /\ f[n] \subseteq Trans /\ waitsFor[t] \subseteq f[n]
                   /\ Grow(t, f[n]) = f[n] \/ n <= Cardinality(f[n])
           S == {n \in Nat : Q(n)}
<1>4. 1 \in S
  <2>1. f[1] \subseteq Trans /\ waitsFor[t] \subseteq f[1]
    BY <1>3 DEF TypeOK
  <2>2. CASE f[1] = {}
    BY <2>1, <2>2 DEF Grow
  <2>3. CASE f[1] # {}
    <3>1. IsFiniteSet(f[1])
      BY <2>1, FS_Subset
    <3>2. Cardinality(f[1]) \in Nat /\ Cardinality(f[1]) # 0
      BY <3>1, <2>3, FS_CardinalityType, FS_EmptySet
    <3> QED BY <2>1, <3>2
  <2> QED BY <2>2, <2>3
<1>5. ASSUME NEW n \in 1 .. N - 1, n \in S PROVE n + 1 \in S
  <2>1. Q(n) /\ f[n + 1] = Grow(t, f[n]) /\ n \in Nat
    BY <1>1, <1>3, <1>5
  <2>2. PICK F, G : F = f[n] /\ G = f[n + 1]
    OBVIOUS
  <2>3. G = Grow(t, F) /\ F \subseteq G /\ G \subseteq Trans /\ waitsFor[t] \subseteq G
    BY <2>1, <2>2 DEF Grow
  <2>4. CASE G = F
    <3>1. Q(n + 1)
      BY <2>2, <2>3, <2>4
    <3> QED BY <2>1, <3>1
  <2>5. CASE G # F
    <3>1. n <= Cardinality(F)
      BY <2>1, <2>2, <2>3, <2>5
    <3>2. PICK v \in G : v \notin F
      BY <2>3, <2>5
    <3>3. IsFiniteSet(F) /\ IsFiniteSet(G)
      <4>1. F \in SUBSET Trans /\ G \in SUBSET Trans
        BY <2>3
      <4> QED BY <4>1, FS_Subset
    <3>4. Cardinality(F \cup {v}) = Cardinality(F) + 1
      BY <3>2, <3>3, FS_AddElement
    <3>5. F \cup {v} \in SUBSET G
      BY <2>3, <3>2
    <3>6. Cardinality(F \cup {v}) <= Cardinality(G)
      BY <3>3, <3>5, FS_Subset
    <3>7. Cardinality(F) \in Nat /\ Cardinality(G) \in Nat
      BY <3>3, FS_CardinalityType
    <3>8. n + 1 <= Cardinality(G)
      BY <2>1, <3>1, <3>4, <3>6, <3>7
    <3> QED BY <2>1, <2>2, <2>3, <3>8
  <2> QED BY <2>4, <2>5
<1> HIDE DEF S
<1>6. N \in S
  <2>1. S \in SUBSET Nat
    BY DEF S
  <2>2. 1 .. N \subseteq S
    BY <2>1, <1>1, <1>4, <1>5, UpTo
  <2> QED BY <2>2, <1>1
<1>7. PICK F : F = f[N] /\ F = PathFrom(t)
  BY <1>2
<1>8. /\ F \subseteq Trans /\ waitsFor[t] \subseteq F
      /\ Grow(t, F) = F \/ N <= Cardinality(F)
  BY <1>6, <1>7 DEF S
<1>9. Grow(t, F) = F
  <2>1. CASE N <= Cardinality(F)
    <3>1. F \in SUBSET Trans
      BY <1>8
    <3>2. Cardinality(F) <= Cardinality(Trans) /\ (Cardinality(F) = Cardinality(Trans) => F = Trans) /\ IsFiniteSet(F)
      BY <3>1, FS_Subset
    <3>3. Cardinality(F) \in Nat
      BY <3>2, FS_CardinalityType
    <3>4. F = Trans
      BY <2>1, <3>2, <3>3, <1>1 DEF N
    <3> QED BY <3>4 DEF Grow
  <2> QED BY <2>1, <1>8
<1>10. ASSUME NEW u \in F, NEW v \in waitsFor[u] PROVE v \in F \/ v \in chain[t]
  <2>1. v \in Trans
    BY <1>8 DEF TypeOK
  <2> QED BY <2>1, <1>9 DEF Grow
<1> QED BY <1>7, <1>8, <1>10

\* What a step leaves of those that are suspended after it.
Suspended(t) == mStatus[t] = "BLOCKED" /\ ~ ToLight(op[t].item)

SuspendedKept ==
  \A t \in Trans : Suspended(t)' =>
    /\ Suspended(t) /\ pc'[t] = pc[t] /\ chain'[t] = chain[t]
    /\ \A u \in Trans : mStatus'[u] = "BLOCKED" => (u \in waitsFor'[t] <=> u \in waitsFor[t])

\* A step that only lets some go, and clears the columns of those that are not
\* suspended, leaves in every deadlock one with its check before it.
LEMMA DeadlockKept ==
  ASSUME DeadlockInv, SuspendedKept
  PROVE  DeadlockInv'
<1> SUFFICES ASSUME NEW D \in SUBSET Trans, Closed(D)' PROVE Detectable(D)'
  BY DEF DeadlockInv
<1>1. D # {} /\ \A t \in D : Suspended(t)' /\ \E u \in D : u \in waitsFor'[t]
  BY DEF Closed, Suspended
<1>2. \A t, u \in D : u \in waitsFor'[t] <=> u \in waitsFor[t]
  BY <1>1 DEF SuspendedKept, Suspended
<1>3. \A t \in D : Suspended(t) /\ pc'[t] = pc[t] /\ chain'[t] = chain[t]
  BY <1>1 DEF SuspendedKept
<1>4. Closed(D)
  BY <1>1, <1>2, <1>3 DEF Closed, Suspended
<1>5. PICK E \in SUBSET D : 
        /\ Closed(E)
        /\ \E w \in E : pc[w] = "wait" /\ \A v \in E : v \in chain[w] => v \in waitsFor[w]
  BY <1>4 DEF DeadlockInv, Detectable
<1>6. Closed(E)'
  BY <1>1, <1>2, <1>5 DEF Closed, Suspended
<1>7. PICK w \in E : pc[w] = "wait" /\ \A v \in E : v \in chain[w] => v \in waitsFor[w]
  BY <1>5
<1>8. pc'[w] = "wait" /\ \A v \in E : v \in chain'[w] => v \in waitsFor'[w]
  BY <1>2, <1>3, <1>7
<1> QED BY <1>6, <1>7, <1>8 DEF Detectable

\* A request is queued with its check before it and nothing in its chain but the
\* columns it has just set.
LEMMA BlockDeadlock ==
  ASSUME IInv, WaitInv, DeadlockInv, NEW t \in Trans, Block(t)
  PROVE  DeadlockInv'
<1>0. TypeOK
  BY DEF IInv
<1>1. /\ pc[t] \in {"lock", "scan"} /\ chain[t] = {}
      /\ mStatus' = [mStatus EXCEPT ![t] = "BLOCKED"] /\ pc' = [pc EXCEPT ![t] = "wait"] /\ op' = op
      /\ waitsFor' = [waitsFor EXCEPT ![t] = @ \cup (Blockers(t) \ chain[t])]
      /\ chain' = [chain EXCEPT ![t] = @ \cup Blockers(t)]
  <2>1. pc[t] \in {"lock", "scan"} /\ after[t] # "abort"
    BY DEF Block, AtDecision, IInv, OpInv
  <2> QED BY <2>1 DEF Block, WaitInv, ChainInv, Waiting
<1>2. pc'[t] = "wait" /\ chain'[t] \subseteq waitsFor'[t]
  BY <1>0, <1>1 DEF TypeOK
<1> SUFFICES ASSUME NEW D \in SUBSET Trans, Closed(D)' PROVE Detectable(D)'
  BY DEF DeadlockInv
<1>3. CASE t \in D
  BY <1>2, <1>3 DEF Detectable
<1>4. CASE t \notin D
  <2>1. \A v \in D : /\ mStatus'[v] = mStatus[v] /\ pc'[v] = pc[v] /\ op'[v] = op[v]
                     /\ waitsFor'[v] = waitsFor[v] /\ chain'[v] = chain[v]
    BY <1>0, <1>1, <1>4 DEF TypeOK
  <2>2. \A i : ToLight(i) => ToLight(i)'
    BY <1>0, <1>1 DEF ToLight, At, TypeOK
  <2>3. Closed(D)
    BY <2>1, <2>2 DEF Closed
  <2>4. PICK E \in SUBSET D : 
          /\ Closed(E)
          /\ \E w \in E : pc[w] = "wait" /\ \A v \in E : v \in chain[w] => v \in waitsFor[w]
    BY <2>3 DEF DeadlockInv, Detectable
  <2>5. Closed(E)'
    BY <2>1, <2>4 DEF Closed
  <2> QED BY <2>1, <2>4, <2>5 DEF Detectable
<1> QED BY <1>3, <1>4

\* A check that finds no cycle has met none of a deadlock its thread is in: those it did
\* meet are a smaller deadlock without it.
LEMMA CheckDeadlockStep ==
  ASSUME IInv, DeadlockInv, NEW w \in Trans, CheckDeadlock(w)
  PROVE  DeadlockInv'
<1>0. TypeOK /\ IsFiniteSet(Trans)
  BY ConstAssumption DEF IInv
<1>1. /\ pc[w] = "wait" /\ w \notin PathFrom(w) /\ pc' = [pc EXCEPT ![w] = "checked"]
      /\ UNCHANGED <<waitsFor, chain, mStatus, op>>
  BY DEF CheckDeadlock, isCycle, waitVars, thrVars
<1>2. \A i : ToLight(i) <=> ToLight(i)'
  BY <1>0, <1>1 DEF ToLight, At, TypeOK
<1>3. \A E : Closed(E)' <=> Closed(E)
  BY <1>1, <1>2 DEF Closed
<1> DEFINE Sees(v, E) == \A u \in E : u \in chain[v] => u \in waitsFor[v]
<1>4. ASSUME NEW D \in SUBSET Trans, NEW E \in SUBSET D, NEW v \in E,
             Closed(E), v # w, pc[v] = "wait", Sees(v, E)
      PROVE  Detectable(D)'
  <2>1. pc'[v] = "wait" /\ Closed(E)'
    BY <1>0, <1>1, <1>3, <1>4 DEF TypeOK
  <2>2. \A u \in E : u \in chain'[v] => u \in waitsFor'[v]
    BY <1>1, <1>4
  <2> QED BY <2>1, <2>2 DEF Detectable
<1> SUFFICES ASSUME NEW D \in SUBSET Trans, Closed(D)' PROVE Detectable(D)'
  BY DEF DeadlockInv
<1>5. PICK E \in SUBSET D : Closed(E) /\ \E v \in E : pc[v] = "wait" /\ Sees(v, E)
  BY <1>3 DEF DeadlockInv, Detectable
<1>6. PICK v \in E : pc[v] = "wait" /\ Sees(v, E)
  BY <1>5
<1>7. CASE v # w
  BY <1>4, <1>5, <1>6, <1>7
<1>8. CASE v = w
  <2> DEFINE F == {u \in E : u \in PathFrom(w)}
  <2>1. Closed(F)
    <3>1. F # {}
      <4>1. PICK u \in E : u \in waitsFor[w]
        BY <1>5, <1>6, <1>8 DEF Closed
      <4> QED BY <4>1, <1>0, PathClosed
    <3>2. ASSUME NEW u \in F PROVE \E x \in F : x \in waitsFor[u]
      <4>1. PICK x \in E : x \in waitsFor[u]
        BY <1>5 DEF Closed
      <4>2. x \in PathFrom(w) \/ x \in chain[w]
        BY <4>1, <1>0, PathClosed
      <4>3. x \in chain[w] => x \in PathFrom(w)
        BY <1>0, <1>6, <1>8, PathClosed
      <4> QED BY <4>1, <4>2, <4>3
    <3> QED BY <3>1, <3>2, <1>5 DEF Closed
  <2>2. PICK G \in SUBSET F : Closed(G) /\ \E x \in G : pc[x] = "wait" /\ Sees(x, G)
    <3>1. F \in SUBSET Trans
      OBVIOUS
    <3> HIDE DEF F
    <3> QED BY <2>1, <3>1 DEF DeadlockInv, Detectable
  <2>3. PICK x \in G : pc[x] = "wait" /\ Sees(x, G)
    BY <2>2
  <2>4. x # w /\ G \in SUBSET D
    BY <1>1
  <2> QED BY <2>2, <2>3, <2>4, <1>4
<1> QED BY <1>7, <1>8

\* Every other step: a resumed transaction is suspended no longer, the columns that a
\* step clears are of holders that do not wait, except that the grant list of an item
\* on its way back to light mode is cleared whoever is in it.
LEMMA SuspendedStep ==
  ASSUME IInv, NEW t \in Trans, Step(t), Inside(t), ~ Block(t), ~ CheckDeadlock(t)
  PROVE  SuspendedKept
<1> DEFINE i == op[t].item
<1>0. TypeOK /\ OpInv
  BY DEF IInv
<1>1. /\ i \in Items
      /\ \A j \in Items : j # i => request'[j] = request[j]
      /\ \A u \in Trans \ {t} : pc'[u] = pc[u] /\ op'[u] = op[u] /\ chain'[u] = chain[u]
  BY InsideFrame
\* The thread at work is not suspended after the step.
<1>2. mStatus'[t] = "BEGIN" /\ \A v \in Trans : mStatus'[v] = "BLOCKED" => mStatus[v] = "BLOCKED"
  <2>1. CASE mStatus' = mStatus /\ ~ Waiting(t)
    BY <2>1, <1>0 DEF TypeOK, OpInv
  <2>2. CASE mStatus' = mStatus /\ mStatus[t] = "BEGIN"
    BY <2>2
  <2>3. CASE LeaveQueue(t)
    BY <2>3, <1>0 DEF LeaveQueue, TypeOK
  <2>4. CASE WakeUpHead(t) \/ ToLightHead(t)
    <3>1. mStatus' = [mStatus EXCEPT ![Head(request[i])] = "BEGIN"] /\ ~ Waiting(t)
      BY <2>4 DEF WakeUpHead, ToLightHead, Resume, Waiting
    <3> QED BY <3>1, <1>0 DEF TypeOK, OpInv
  <2>5. CASE LightLock(t) \/ LockInternalLight(t) \/ BeginHeavy(t) \/ (\E s \in Trans : Scan(t, s)) \/ GrantHeavy(t)
             \/ NoWait(t) \/ LightUnlock(t) \/ UnlockHeavy(t) \/ Settle(t) \/ WakeUpDone(t) \/ ToLightDone(t)
    <3>1. mStatus' = mStatus
      BY <2>5 DEF LightLock, LockInternalLight, GrantLight, BeginHeavy, Scan, GrantHeavy, NoWait, LightUnlock,
         UnlockHeavy, Settle, WakeUpDone, ToLightDone, Leave, thrVars
    <3>2. ~ Waiting(t)
      BY <2>5 DEF LightLock, LockInternalLight, BeginHeavy, Scan, GrantHeavy, NoWait, AtDecision, LightUnlock,
         UnlockHeavy, Settle, WakeUpDone, ToLightDone, Waiting
    <3> QED BY <2>1, <3>1, <3>2
  <2>6. CASE WakeUp(t)
    BY <2>6, <2>2 DEF WakeUp
  <2>7. CASE Deadlock(t) \/ TimeOut(t)
    BY <2>7, <2>3 DEF Deadlock, TimeOut
  <2>8. CASE SessionEvent(t)
    BY <2>8, <2>2, <2>3 DEF SessionEvent
  <2>9. ~ (\E k \in Items : UnlockNode(t, k)) /\ ~ EndDone(t)
    BY DEF Inside, UnlockNode, EndDone
  <2> QED BY <2>3, <2>4, <2>5, <2>6, <2>7, <2>8, <2>9 DEF Step
<1> SUFFICES ASSUME NEW v \in Trans, Suspended(v)'
             PROVE  /\ Suspended(v) /\ pc'[v] = pc[v] /\ chain'[v] = chain[v]
                    /\ \A u \in Trans : mStatus'[u] = "BLOCKED" => (u \in waitsFor'[v] <=> u \in waitsFor[v])
  BY DEF SuspendedKept
<1>3. /\ v # t /\ mStatus[v] = "BLOCKED" /\ op[v].item \in Items
      /\ op'[v] = op[v] /\ pc'[v] = pc[v] /\ chain'[v] = chain[v]
  <2>1. v # t /\ mStatus[v] = "BLOCKED"
    BY <1>2 DEF Suspended
  <2> QED BY <2>1, <1>0, <1>1 DEF OpInv, Waiting, Slot
<1>4. v \in ToSet(request[op[v].item]) /\ v \in ToSet(request'[op[v].item])
  <2>1. IInv'
    BY NextInv DEF Next
  <2>2. mStatus'[v] = "BLOCKED"
    BY DEF Suspended
  <2> QED BY <2>1, <2>2, <1>3 DEF IInv, ItemInv, WaitItem
\* An item that is back in light mode has nobody queued.
<1>5. ~ ToLight(op[v].item)
  <2> SUFFICES ASSUME ToLight(op[v].item) PROVE FALSE
    OBVIOUS
  <2>1. ~ ToLight(op[v].item)'
    BY <1>3 DEF Suspended
  <2>2. At(t, "toLight", op[v].item)
    BY <2>1, <1>1, <1>3, ToLightStays
  <2>3. ToLightHead(t) \/ ToLightDone(t)
    BY <2>2, <1>0 DEF At, Step, LightLock, LockInternalLight, BeginHeavy, Scan, GrantHeavy, Block, NoWait,
        AtDecision, UnlockNode, EndDone, LightUnlock, UnlockHeavy, Settle, WakeUpHead, WakeUpDone, WakeUp,
        CheckDeadlock, Deadlock, TimeOut, SessionEvent, Waiting
  <2>4. CASE ToLightHead(t)
    <3>1. At(t, "toLight", op[v].item)'
      BY <2>2, <2>4 DEF ToLightHead, Resume, At
    <3> QED BY <3>1, <2>1 DEF ToLight
  <2>5. CASE ToLightDone(t)
    BY <2>2, <2>5, <1>4, QueueEmpty DEF ToLightDone, At
  <2> QED BY <2>3, <2>4, <2>5
<1>6. \A u \in Trans : mStatus'[u] = "BLOCKED" => (u \in waitsFor'[v] <=> u \in waitsFor[v])
  <2>1. CASE waitsFor' = waitsFor
    BY <2>1
  <2>2. CASE ClearRow(t)
    BY <2>2, <1>0, <1>3 DEF ClearRow, TypeOK
  <2>3. CASE waitsFor' = ColumnsCleared(i, {t})
    BY <2>3, <1>2 DEF ColumnsCleared
  <2>4. CASE UnlinkGrants(t) /\ op' = op
    <3>1. pc'[t] = "toLight" /\ op'[t] = op[t]
      BY <2>4, <1>0 DEF UnlinkGrants, TypeOK
    <3>2. op[v].item # i
      BY <3>1, <1>3 DEF Suspended, ToLight, At
    <3>3. v \notin ToSet(request[i])
      BY <3>2, <1>1, BlockedPlace
    <3> QED BY <3>3, <1>3, RowsFrame
  <2>5. CASE WakeUpHead(t) \/ ToLightHead(t)
    <3>1. /\ waitsFor' = [waitsFor EXCEPT ![Head(request[i])] = {}]
          /\ mStatus' = [mStatus EXCEPT ![Head(request[i])] = "BEGIN"]
      BY <2>5 DEF WakeUpHead, ToLightHead, Resume
    <3>2. v # Head(request[i])
      BY <3>1, <1>0 DEF Suspended, TypeOK
    <3> QED BY <3>1, <3>2, <1>0 DEF TypeOK
  <2>6. CASE LeaveQueue(t)
    BY <2>1, <2>3, <2>6 DEF LeaveQueue
  <2>7. CASE Leave(t)
    BY <2>1, <2>2, <2>7 DEF Leave, waitVars
  <2>8. CASE LightLock(t) \/ LockInternalLight(t) \/ BeginHeavy(t) \/ (\E s \in Trans : Scan(t, s)) \/ GrantHeavy(t)
             \/ LightUnlock(t)
    <3>1. waitsFor' = waitsFor
      BY <2>8 DEF LightLock, LockInternalLight, GrantLight, BeginHeavy, Scan, GrantHeavy, LightUnlock, waitVars
    <3> QED BY <3>1, <2>1
  <2>9. CASE NoWait(t) \/ Settle(t)
    BY <2>1, <2>4, <2>9 DEF NoWait, Settle, thrVars
  <2>10. CASE UnlockHeavy(t)
    BY <2>1, <2>3, <2>10 DEF UnlockHeavy, ReleaseGranted
  <2>11. CASE WakeUpDone(t) \/ ToLightDone(t)
    BY <2>7, <2>11 DEF WakeUpDone, ToLightDone
  <2>12. CASE WakeUp(t) \/ Deadlock(t) \/ TimeOut(t)
    BY <2>2, <2>6, <2>12 DEF WakeUp, Deadlock, TimeOut
  <2>13. CASE SessionEvent(t)
    BY <2>1, <2>2, <2>3, <2>6, <2>13 DEF SessionEvent, ReleaseGranted
  <2>14. ~ (\E k \in Items : UnlockNode(t, k)) /\ ~ EndDone(t)
    BY DEF Inside, UnlockNode, EndDone
  <2> QED BY <2>5, <2>8, <2>9, <2>10, <2>11, <2>12, <2>13, <2>14 DEF Step
<1> QED BY <1>3, <1>5, <1>6 DEF Suspended

\* Every step leaves in each deadlock one that has its check before it.
LEMMA DeadlockStep == IInv /\ WaitInv /\ DeadlockInv /\ [Next]_vars => DeadlockInv'
<1> SUFFICES ASSUME IInv, WaitInv, DeadlockInv, [Next]_vars PROVE DeadlockInv'
  OBVIOUS
<1>1. CASE UNCHANGED vars
  <2>1. SuspendedKept
    BY <1>1 DEF vars, waitVars, thrVars, SuspendedKept, Suspended, ToLight, At
  <2> QED BY <2>1, DeadlockKept
<1>2. ASSUME NEW t \in Trans, Call(t) \/ (\E i \in Items : UnlockNode(t, i)) \/ EndDone(t)
      PROVE  DeadlockInv'
  <2>1. /\ UNCHANGED <<waitsFor, chain, mStatus>> /\ pc[t] \in {"run", "end"} /\ mStatus[t] = "BEGIN"
        /\ \A u \in Trans \ {t} : pc'[u] = pc[u] /\ op'[u] = op[u]
    BY <1>2, OutsideFrame DEF waitVars
  <2>2. \A j : ToLight(j) => ToLight(j)'
    BY <2>1 DEF ToLight, At
  <2>3. SuspendedKept
    BY <2>1, <2>2 DEF SuspendedKept, Suspended
  <2> QED BY <2>3, DeadlockKept
<1>3. ASSUME NEW t \in Trans, Step(t), Inside(t) PROVE DeadlockInv'
  BY <1>3, BlockDeadlock, CheckDeadlockStep, SuspendedStep, DeadlockKept
<1> QED BY <1>1, <1>2, <1>3, StepCases

LEMMA InitDeadlock == Init => DeadlockInv
BY DEF Init, DeadlockInv, Closed

\* While an item goes back to light mode nobody holds or asks for a heavy mode: of its
\* waiters, the first in the queue is kept waiting by nobody.
LEMMA ToLightFrees ==
  ASSUME IInv, NEW D \in SUBSET Trans, NEW i \in Items, ToLight(i),
         NEW t \in D, t \in ToSet(request[i])
  PROVE  \E v \in D : \A u \in D : ~ Obstructs(u, v)
<1> DEFINE T == {k \in DOMAIN request[i] : request[i][k] \in D}
<1>1. request[i] \in Seq(Trans) /\ IsInjective(request[i])
  BY DEF IInv, TypeOK, ItemInv, WaitItem
<1>2. T \in SUBSET Nat /\ T # {}
  BY <1>1 DEF ToSet
<1> HIDE DEF T
<1>3. PICK n \in T : \A k \in T : n <= k
  BY <1>2, Smallest
<1>4. PICK v \in D : n \in DOMAIN request[i] /\ v = request[i][n]
  BY DEF T
<1>5. v \in ToSet(request[i])
  BY <1>4 DEF ToSet
<1>6. op[v].item = i /\ op[v].mode \in Mode \ HeavyMode
  BY <1>5, BlockedPlace DEF IInv, TypeOK, ItemInv, TransitionItem
<1>7. ASSUME NEW u \in D, Obstructs(u, v) PROVE FALSE
  <2>1. held[u][i] \in Mode \ HeavyMode
    BY DEF IInv, TypeOK, ItemInv, TransitionItem, OnlyIntentHeld
  <2>2. Compatible(held[u][i], op[v].mode)
    BY <2>1, <1>6, IntentModes
  <2>3. PICK k, l \in DOMAIN request[i] : k < l /\ request[i][k] = u /\ request[i][l] = v
    BY <2>2, <1>6, <1>7 DEF Obstructs
  <2>4. l = n /\ k \in T
    BY <2>3, <1>1, <1>4 DEF IsInjective, T
  <2>5. n <= k /\ k \in Nat /\ n \in Nat
    BY <2>4, <1>2, <1>3
  <2> QED BY <2>3, <2>4, <2>5
<1> QED BY <1>7

\* No deadlock stays undetected: of transactions that keep each other waiting in a cycle,
\* through one item or several, at least one has its deadlock check still before it
\* (isCycle, called by waitForLock after the request is queued), and that check will see
\* the cycle; the columns other steps have cleared meanwhile cannot hide it.
THEOREM DeadlocksDetected == Spec => []NoUndetectedDeadlock
<1>1. IInv /\ WaitInv /\ DeadlockInv => NoUndetectedDeadlock
  <2> SUFFICES ASSUME IInv, WaitInv, DeadlockInv, NEW D \in (SUBSET Trans) \ {{}},
                      \A t \in D : pc[t] = "checked" /\ \E u \in D : Obstructs(u, t)
               PROVE  FALSE
    BY DEF NoUndetectedDeadlock
  <2>0. D \in SUBSET Trans /\ D # {}
    OBVIOUS
  <2>1. \A t \in D : mStatus[t] = "BLOCKED" /\ op[t].item \in Items
    BY <2>0 DEF Obstructs, IInv, OpInv, Slot
  <2>2. \A t \in D : t \in ToSet(request[op[t].item])
    BY <2>0, <2>1 DEF IInv, ItemInv, WaitItem
  <2>3. ASSUME NEW t \in D PROVE ~ ToLight(op[t].item)
    BY <2>0, <2>1, <2>2, ToLightFrees
  <2>4. Closed(D)
    BY <2>0, <2>1, <2>3, ObstacleSeen DEF Closed
  <2>5. \E w \in D : pc[w] = "wait"
    BY <2>0, <2>4 DEF DeadlockInv, Detectable
  <2> QED BY <2>5
<1>2. Spec => [](IInv /\ WaitInv /\ DeadlockInv)
  BY InitInv, NextInv, InitWait, WaitStep, InitDeadlock, DeadlockStep, PTL DEF Spec
<1> QED BY <1>1, <1>2, PTL

-----------------------------------------------------------------------------
(* What was reported as locked is held.  That no session event ends a wait *)
(* is needed: see README, findings.                                        *)

\* The client's own memory does not act on the lock manager.
LEMMA HistoryIsNext ==
  ASSUME [HNext]_hvars
  PROVE  [Next]_vars
BY DEF HNext, HStep, EarlyReturn, Next, hvars

-----------------------------------------------------------------------------
(* The mode of a node is what its mask decides.                            *)

\* One more mode in the mask of a node that decides its mode.
LEMMA ModeAdded ==
  ASSUME NEW f \in SUBSET LockMode, NEW m \in LockMode
  PROVE  /\ Decision(f \cup {m}) = Conversion(Decision(f), m)
         /\ m \in f => Decision(f) = Conversion(Decision(f), m)
<1>1. Decision(f \cup {m}) = Conversion(Decision(f), m)
  BY DecisionAdds
<1>2. m \in f => f \cup {m} = f
  OBVIOUS
<1> QED BY <1>1, <1>2

\* A node that nobody touches, and whose owner stays where it is or has no part in it.
LEMMA ModeKept ==
  ASSUME NEW t \in Trans, ModeInv(t), held'[t] = held[t], nodeFlag'[t] = nodeFlag[t],
         \/ op'[t] = op[t] /\ pc'[t] = pc[t] /\ cvs'[t] = cvs[t] /\ mStatus'[t] = mStatus[t]
         \/ \A i \in Items : ~ ConversionDue(t, i) /\ ~ ConversionDue(t, i)'
  PROVE  ModeInv(t)'
<1>1. \A i \in Items :
        /\ ConversionDue(t, i)' <=> ConversionDue(t, i)
        /\ ConversionDue(t, i) => op'[t] = op[t]
  BY DEF ConversionDue, Waiting
<1> QED BY <1>1 DEF ModeInv

\* A lock granted to the thread that asks for it.
LEMMA ModeGranted ==
  ASSUME IInv, NEW t \in Trans, ModeInv(t), AddLockSlot(t), pc[t] \in {"lightLock", "lock", "scan"},
         held' = [held EXCEPT ![t][op[t].item] = Conversion(@, op[t].mode)], pc'[t] = "run"
  PROVE  ModeInv(t)'
<1> DEFINE i == op[t].item
<1>1. i \in Items /\ op[t].mode \in LockMode
  BY DEF IInv, OpInv, Slot
<1>2. \A j \in Items : ~ ConversionDue(t, j) /\ ~ ConversionDue(t, j)'
  BY DEF ConversionDue, Waiting
<1>3. /\ held'[t][i] = Conversion(held[t][i], op[t].mode)
      /\ nodeFlag'[t][i] = nodeFlag[t][i] \cup {op[t].mode}
      /\ \A j \in Items \ {i} : held'[t][j] = held[t][j] /\ nodeFlag'[t][j] = nodeFlag[t][j]
  BY <1>1 DEF AddLockSlot, IInv, TypeOK
<1>4. PICK f \in SUBSET LockMode, m \in LockMode : f = nodeFlag[t][i] /\ m = op[t].mode
  BY <1>1 DEF IInv, TypeOK
<1>5. Decision(f \cup {m}) = Conversion(Decision(f), m)
  BY ModeAdded
<1>6. held'[t][i] = Decision(nodeFlag'[t][i])
  BY <1>1, <1>2, <1>3, <1>4, <1>5 DEF ModeInv
<1> QED BY <1>2, <1>3, <1>6 DEF ModeInv

\* A lock granted while its transaction was suspended.
LEMMA ModeWokenUp ==
  ASSUME IInv, NEW t \in Trans, ModeInv(t), AccountInv(t), AddLockSlot(t), Waiting(t), mStatus[t] = "BEGIN",
         held' = held, pc'[t] = "run"
  PROVE  ModeInv(t)'
<1> DEFINE i == op[t].item
<1>1. i \in Items /\ op[t].mode \in LockMode /\ after[t] # "end" /\ pc[t] # "end"
  BY DEF IInv, OpInv, Slot, Waiting
<1>2. /\ \A j \in Items : ~ ConversionDue(t, j)'
      /\ \A j \in Items : j # i => ~ ConversionDue(t, j)
      /\ ConversionDue(t, i) <=> cvs[t]
      /\ SlotDue(t, i) <=> ~ cvs[t]
  BY DEF ConversionDue, SlotDue, Waiting
<1>3. /\ nodeFlag'[t][i] = nodeFlag[t][i] \cup {op[t].mode}
      /\ \A j \in Items \ {i} : nodeFlag'[t][j] = nodeFlag[t][j]
  BY <1>1 DEF AddLockSlot, IInv, TypeOK
<1>4. PICK f \in SUBSET LockMode, m \in LockMode : f = nodeFlag[t][i] /\ m = op[t].mode
  BY <1>1 DEF IInv, TypeOK
<1>5. /\ Decision(f \cup {m}) = Conversion(Decision(f), m)
      /\ m \in f => Decision(f) = Conversion(Decision(f), m)
  BY ModeAdded
<1>6. cvs[t] \/ m \in f
  BY <1>1, <1>2, <1>4 DEF AccountInv
<1>7. held[t][i] = Conversion(Decision(f), m)
  BY <1>1, <1>2, <1>4, <1>5, <1>6 DEF ModeInv
<1>8. held'[t][i] = Decision(nodeFlag'[t][i])
  BY <1>3, <1>4, <1>5, <1>7
<1> QED BY <1>2, <1>3, <1>8 DEF ModeInv

\* What is released is decided anew.
LEMMA ModeReleased ==
  ASSUME IInv, NEW t \in Trans, ModeInv(t), NEW i \in Items, NEW m \in Mode, ReleaseNode(t, i, m),
         ~ Waiting(t), ~ Waiting(t)'
  PROVE  ModeInv(t)'
<1>1. \A j \in Items : ~ ConversionDue(t, j) /\ ~ ConversionDue(t, j)'
  BY DEF ConversionDue
<1>2. /\ nodeFlag'[t][i] = Kept(t, i, m) /\ held'[t][i] = Decision(Kept(t, i, m))
      /\ \A j \in Items \ {i} : held'[t][j] = held[t][j] /\ nodeFlag'[t][j] = nodeFlag[t][j]
  BY DEF ReleaseNode, IInv, TypeOK
<1> QED BY <1>1, <1>2 DEF ModeInv

\* A resumed transaction has the mode of its first lock, or a conversion due.
LEMMA ModeResumed ==
  ASSUME IInv, NEW i \in Items, NEW u, NEW new, ResumesHead(i, u, new),
         new = Conversion(held[u][i], op[u].mode), \A t \in Trans : ModeInv(t)
  PROVE  \A t \in Trans : ModeInv(t)'
<1>1. /\ u \in Trans /\ Waiting(u) /\ op[u].item = i
      /\ cvs[u] <=> held[u][i] # "N"
      /\ held'[u][i] = new
      /\ \A v \in Trans, j \in Items : v # u \/ j # i =>
           held'[v][j] = held[v][j] /\ nodeFlag'[v][j] = nodeFlag[v][j]
      /\ nodeFlag'[u][i] = IF cvs[u] THEN nodeFlag[u][i] ELSE {op[u].mode}
      /\ nodeFlag' \in [Trans -> [Items -> SUBSET LockMode]]
      /\ held' \in [Trans -> [Items -> Mode]]
      /\ mStatus[u] = "BLOCKED" /\ mStatus'[u] = "BEGIN"
      /\ \A v \in Trans \ {u} : mStatus'[v] = mStatus[v]
      /\ UNCHANGED <<slots, chain, mutex, op, cvs, scan, after, pc>>
  <2>1. Resumed(i, u, new)
    BY ResumeFacts
  <2> QED BY <2>1 DEF Resumed
<1>2. ASSUME NEW t \in Trans \ {u} PROVE ModeInv(t)'
  <2>1. nodeFlag'[t] = nodeFlag[t] /\ held'[t] = held[t]
    BY <1>1 DEF IInv, TypeOK
  <2> QED BY <1>1, <2>1, ModeKept
<1>3. ModeInv(u)'
  <2>1. op[u].mode \in LockMode
    BY <1>1 DEF IInv, OpInv, Waiting, Slot
  <2>2. \A j \in Items : ~ ConversionDue(u, j) /\ (ConversionDue(u, j)' <=> cvs[u] /\ j = i)
    BY <1>1 DEF ConversionDue, Waiting
  <2>3. \A j \in Items : held[u][j] = Decision(nodeFlag[u][j])
    BY <1>1, <2>2 DEF ModeInv
  <2>4. \A j \in Items \ {i} : held'[u][j] = Decision(nodeFlag'[u][j])
    BY <1>1, <2>3
  <2>5. CASE cvs[u]
    BY <1>1, <2>2, <2>3, <2>4, <2>5 DEF ModeInv
  <2>6. CASE ~ cvs[u]
    <3>1. PICK m \in LockMode : m = op[u].mode
      BY <2>1
    <3>2. Conversion("N", m) = m /\ Decision({m}) = m
      BY DEF Conversion, mConversionTBL, Decision, LockMode, Mode
    <3>3. held'[u][i] = Decision(nodeFlag'[u][i])
      BY <1>1, <2>6, <3>1, <3>2
    <3> QED BY <2>2, <2>4, <2>6, <3>3 DEF ModeInv
  <2> QED BY <2>5, <2>6
<1> QED BY <1>2, <1>3

\* Every step but a session event keeps the mode of every node at what its mask decides.
LEMMA ModeStep ==
  ASSUME "event" \notin Failure, IInv, WaitInv, \A t \in Trans : ModeInv(t), [Next]_vars
  PROVE  \A t \in Trans : ModeInv(t)'
<1>0. TypeOK /\ OpInv
  BY DEF IInv
<1>1. CASE UNCHANGED vars
  BY <1>1, ModeKept DEF vars, nodeVars, thrVars
<1>2. ASSUME NEW t \in Trans, Call(t) \/ (\E i \in Items : UnlockNode(t, i)) \/ EndDone(t)
      PROVE  \A v \in Trans : ModeInv(v)'
  <2>1. /\ UNCHANGED <<mStatus, cvs, held, nodeFlag>> /\ pc[t] \in {"run", "end"}
        /\ pc'[t] \in {"lightLock", "lock", "lightUnlock", "unlock", "end", "run"}
        /\ \A u \in Trans \ {t} : pc'[u] = pc[u] /\ op'[u] = op[u]
    BY <1>2, OutsideFrame
  <2>2. \A i \in Items : ~ ConversionDue(t, i) /\ ~ ConversionDue(t, i)'
    BY <2>1 DEF ConversionDue, Waiting
  <2> QED BY <2>1, <2>2, ModeKept
<1>3. ASSUME NEW t \in Trans, Step(t), Inside(t)
      PROVE  \A v \in Trans : ModeInv(v)'
  <2> DEFINE i == op[t].item
             Others == /\ \A u \in Trans \ {t} : held'[u] = held[u] /\ nodeFlag'[u] = nodeFlag[u]
                       /\ \A u \in Trans \ {t} : mStatus'[u] = mStatus[u]
  <2>1. /\ i \in Items /\ op[t].mode \in Mode
        /\ \A u \in Trans \ {t} : pc'[u] = pc[u] /\ op'[u] = op[u] /\ cvs'[u] = cvs[u]
    <3>1. op[t].mode \in Mode
      BY <1>0 DEF TypeOK
    <3> QED BY <1>3, <3>1, InsideFrame
  <2>2. ASSUME Others, ModeInv(t)' PROVE \A v \in Trans : ModeInv(v)'
    BY <2>1, <2>2, ModeKept
  <2>3. CASE LightLock(t) \/ LockInternalLight(t) \/ GrantHeavy(t)
    <3>1. /\ AddLockSlot(t) /\ pc[t] \in {"lightLock", "lock", "scan"} /\ Return(t, "run") /\ mStatus' = mStatus
          /\ held' = [held EXCEPT ![t][op[t].item] = Conversion(@, op[t].mode)]
      BY <2>3 DEF LightLock, LockInternalLight, GrantLight, GrantHeavy, AtDecision
    <3>2. Others
      BY <3>1, <1>0 DEF AddLockSlot, TypeOK
    <3>3. pc'[t] = "run"
      BY <3>1, <1>0 DEF Return, TypeOK
    <3> QED BY <3>1, <3>2, <3>3, <2>2, ModeGranted
  <2>4. CASE WakeUp(t)
    <3>1. /\ AddLockSlot(t) /\ Waiting(t) /\ mStatus[t] = "BEGIN" /\ mStatus' = mStatus /\ held' = held
          /\ pc'[t] = "run"
      BY <2>4, <1>0 DEF WakeUp, Return, TypeOK
    <3>2. Others
      BY <3>1, <1>0 DEF AddLockSlot, TypeOK
    <3>3. AccountInv(t)
      BY DEF WaitInv
    <3> QED BY <3>1, <3>2, <3>3, <2>2, ModeWokenUp
  <2>5. CASE LightUnlock(t) \/ UnlockHeavy(t)
    <3>1. /\ ReleaseNode(t, i, op[t].mode) /\ pc[t] \in {"lightUnlock", "unlock"} /\ mStatus' = mStatus
          /\ pc'[t] \in {"settle", after[t]}
      BY <2>5, <1>0 DEF TypeOK, LightUnlock, UnlockHeavy, ReleaseGranted, Return, thrVars
    <3>2. ~ Waiting(t) /\ ~ Waiting(t)'
      BY <3>1, <1>0 DEF TypeOK, Waiting
    <3>3. Others
      BY <3>1, <1>0 DEF ReleaseNode, TypeOK
    <3> QED BY <3>1, <3>2, <3>3, <2>1, <2>2, ModeReleased
  <2>6. CASE WakeUpHead(t) \/ ToLightHead(t)
    <3>1. PICK u, new : u = Head(request[i]) /\ new = Conversion(held[u][i], op[u].mode)
      OBVIOUS
    <3>2. ResumesHead(i, u, new)
      BY <2>6, <3>1, <2>1, HeadConverted
    <3> QED BY <3>1, <3>2, <2>1, ModeResumed
  <2>7. ASSUME held' = held, nodeFlag' = nodeFlag, \A u \in Trans \ {t} : mStatus'[u] = mStatus[u],
               mStatus[t] = "BLOCKED" \/ ~ Waiting(t), mStatus'[t] = "BLOCKED" \/ ~ Waiting(t)'
        PROVE  \A v \in Trans : ModeInv(v)'
    <3>1. \A j \in Items : ~ ConversionDue(t, j) /\ ~ ConversionDue(t, j)'
      BY <2>7 DEF ConversionDue
    <3>2. ModeInv(t)'
      BY <3>1, <2>7, ModeKept
    <3> QED BY <3>2, <2>7, <2>2
  <2>8. CASE BeginHeavy(t) \/ (\E s \in Trans : Scan(t, s)) \/ Block(t) \/ CheckDeadlock(t)
    <3>1. /\ held' = held /\ nodeFlag' = nodeFlag /\ pc[t] \in {"lock", "scan", "wait"}
          /\ \/ mStatus' = mStatus /\ (mStatus[t] = "BLOCKED" \/ pc'[t] = "scan")
             \/ mStatus' = [mStatus EXCEPT ![t] = "BLOCKED"] /\ pc[t] # "wait"
          /\ pc[t] = "wait" => mStatus[t] = "BLOCKED"
      BY <2>8, <1>0 DEF TypeOK, BeginHeavy, Scan, Block, AtDecision, CheckDeadlock, nodeVars, thrVars
    <3> QED BY <3>1, <1>0, <2>7 DEF TypeOK, Waiting
  <2>9. CASE NoWait(t) \/ Settle(t) \/ WakeUpDone(t) \/ ToLightDone(t)
    <3>1. /\ held' = held /\ nodeFlag' = nodeFlag /\ mStatus' = mStatus
          /\ pc[t] \in {"lock", "scan", "settle", "wakeup", "toLight"}
          /\ pc'[t] \in {"toLight", "run", "wakeup", "end", "abort"}
      BY <2>9, <1>0 DEF TypeOK, NoWait, AtDecision, Settle, UnlinkGrants, WakeUpDone, ToLightDone, Leave,
         Return, nodeVars, thrVars
    <3> QED BY <3>1, <2>7 DEF Waiting
  <2>10. CASE Deadlock(t) \/ TimeOut(t)
    <3>1. /\ held' = held /\ nodeFlag' = nodeFlag /\ pc'[t] = "settle" /\ mStatus[t] = "BLOCKED"
          /\ mStatus' = [mStatus EXCEPT ![t] = "BEGIN"]
      BY <2>10, <1>0 DEF Deadlock, TimeOut, LeaveQueue, TypeOK, nodeVars
    <3> QED BY <3>1, <1>0, <2>7 DEF TypeOK, Waiting
  <2>11. ~ (\E k \in Items : UnlockNode(t, k)) /\ ~ EndDone(t) /\ ~ SessionEvent(t)
    BY <1>3 DEF Inside, UnlockNode, EndDone, SessionEvent
  <2> QED BY <1>3, <2>3, <2>4, <2>5, <2>6, <2>8, <2>9, <2>10, <2>11 DEF Step
<1> QED BY <1>1, <1>2, <1>3, StepCases

-----------------------------------------------------------------------------
(* What was reported is held.                                              *)

\* An IS bit that goes takes nothing from what the other bits cover.
LEMMA CoversWithoutIS ==
  ASSUME NEW f \in SUBSET LockMode, NEW m \in LockMode, m # "IS", Covers(Decision(f), m)
  PROVE  Covers(Decision(f \ {"IS"}), m)
BY DEF Decision, LockMode, Mode, Covers, Conversion, mConversionTBL

Acked == acked \in [Trans -> [Items -> SUBSET LockMode]]

\* What a transaction has unlocked it no longer counts on, and what it still counts on
\* the rest of the mask covers.
LEMMA AckedReleased ==
  ASSUME NEW m \in Mode, NEW f \in SUBSET LockMode, NEW a \in SUBSET LockMode,
         \A x \in a : Covers(Decision(f), x),
         NEW kept, kept = IF m = "N" THEN {} ELSE f \ {m},
         NEW n, n \in IF m = "IS" THEN a \ {"IS"} ELSE a \cap kept
  PROVE  Covers(Decision(kept), n)
<1>1. CASE m = "IS"
  BY <1>1, CoversWithoutIS
<1>2. CASE m # "IS"
  <2>1. kept \in SUBSET LockMode /\ n \in kept
    BY <1>2
  <2> QED BY <2>1, DecisionIsJoin
<1> QED BY <1>1, <1>2

\* Every step keeps what the client counts on, if the mode of every node is what its
\* mask decides.
LEMMA AckedStep ==
  ASSUME "event" \notin Failure, IInv, WaitInv, \A t \in Trans : ModeInv(t), Acked, AckedIsHeld, [HNext]_hvars
  PROVE  Acked' /\ AckedIsHeld'
<1>0. TypeOK /\ OpInv /\ [Next]_vars
  BY HistoryIsNext DEF IInv
<1>1. ASSUME held' = held, acked' = acked PROVE Acked' /\ AckedIsHeld'
  BY <1>1 DEF Acked, AckedIsHeld
<1>2. ASSUME NEW t \in Trans, NEW i \in Items, NEW m \in LockMode,
             acked' = [acked EXCEPT ![t][i] = @ \cup {m}],
             \A v \in Trans, j \in Items : Covers(held'[v][j], held[v][j]), Covers(held'[t][i], m),
             held' \in [Trans -> [Items -> Mode]]
      PROVE  Acked' /\ AckedIsHeld'
  <2>1. acked' \in [Trans -> [Items -> SUBSET LockMode]]
    BY <1>2 DEF Acked
  <2>2. ASSUME NEW v \in Trans, NEW j \in Items, NEW n \in acked'[v][j] PROVE Covers(held'[v][j], n)
    <3>1. n \in acked[v][j] \/ (v = t /\ j = i /\ n = m)
      BY <1>2, <2>2 DEF Acked
    <3>2. ASSUME n \in acked[v][j] PROVE Covers(held'[v][j], n)
      <4>1. Covers(held[v][j], n) /\ n \in Mode /\ held[v][j] \in Mode /\ held'[v][j] \in Mode
        BY <3>2, <1>0, <1>2, IntentModes DEF AckedIsHeld, Covers, Acked, TypeOK
      <4> QED BY <4>1, <1>2, CoversOrder
    <3> QED BY <3>1, <3>2, <1>2
  <2> QED BY <2>1, <2>2 DEF Acked, AckedIsHeld, Covers
<1>3. ASSUME acked' = acked, held' \in [Trans -> [Items -> Mode]],
             \A v \in Trans, j \in Items : Covers(held'[v][j], held[v][j])
      PROVE  Acked' /\ AckedIsHeld'
  <2>1. ASSUME NEW v \in Trans, NEW j \in Items, NEW n \in acked[v][j] PROVE Covers(held'[v][j], n)
    <3>1. Covers(held[v][j], n) /\ n \in Mode /\ held[v][j] \in Mode /\ held'[v][j] \in Mode
      BY <2>1, <1>0, <1>3, IntentModes DEF AckedIsHeld, Covers, Acked, TypeOK
    <3> QED BY <3>1, <1>3, CoversOrder
  <2> QED BY <2>1, <1>3 DEF Acked, AckedIsHeld, Covers
<1>4. CASE UNCHANGED hvars
  BY <1>1, <1>4 DEF hvars, vars, nodeVars
<1>5. ASSUME NEW t \in Trans, NEW i \in Items, NEW m \in AskedMode, EarlyReturn(t, i, m)
      PROVE  Acked' /\ AckedIsHeld'
  <2>1. Covers(held[t][i], m) /\ held' = held /\ m \in LockMode /\ acked' = [acked EXCEPT ![t][i] = @ \cup {m}]
    BY <1>5, ConstAssumption DEF EarlyReturn, NeedsLock, Covers, vars, nodeVars
  <2>2. \A v \in Trans, j \in Items : Covers(held[v][j], held[v][j])
    BY <1>0, CoversOrder DEF TypeOK
  <2>3. held' \in [Trans -> [Items -> Mode]]
    BY <2>1, <1>0 DEF TypeOK
  <2> QED BY <2>1, <2>2, <2>3, <1>2
<1>6. ASSUME NEW t \in Trans, HStep(t) PROVE Acked' /\ AckedIsHeld'
  <2> DEFINE i == op[t].item
  <2>0. ASSUME slots'[t] = slots[t] \/ slots'[t] = <<>>, pc[t] \notin {"lightUnlock", "unlock"}
        PROVE  acked' = acked
    <3>1. slots[t] \in Seq(Slot)
      BY <1>0 DEF TypeOK
    <3>2. ~ Locks(t)
      BY <2>0, <3>1 DEF Locks
    <3> QED BY <3>2, <2>0, <1>6 DEF HStep, Unlocks
  <2>1. CASE Call(t) \/ (\E j \in Items : UnlockNode(t, j)) \/ EndDone(t)
    <3>1. held' = held /\ pc[t] \in {"run", "end"}
      BY <2>1, OutsideFrame
    <3>2. slots'[t] = slots[t] \/ slots'[t] = <<>>
      BY <2>1, <1>0 DEF Call, LockTable, UnlockSlot, EndTrans, UnlockNode, EndDone, nodeVars, TypeOK
    <3>3. acked' = acked
      BY <3>1, <3>2, <2>0
    <3> QED BY <3>1, <3>3, <1>1
  <2>2. CASE AddLockSlot(t) /\ op[t] \in Slot /\ pc[t] \notin {"lightUnlock", "unlock"}
             /\ \/ held' = [held EXCEPT ![t][i] = Conversion(@, op[t].mode)]
                \/ held' = held /\ Covers(held[t][i], op[t].mode)
    <3>1. slots[t] \in Seq(Slot) /\ slots'[t] = Append(slots[t], op[t]) /\ i \in Items /\ op[t].mode \in LockMode
      BY <2>2, <1>0 DEF AddLockSlot, TypeOK, Slot
    <3>2. Locks(t)
      BY <2>2, <3>1 DEF Locks
    <3>3. acked' = [acked EXCEPT ![t][i] = @ \cup {op[t].mode}]
      BY <3>2, <1>6 DEF HStep
    <3>4. PICK m \in LockMode : m = op[t].mode
      BY <3>1
    <3>5. /\ \A h \in Mode : Covers(h, h) /\ Covers(Conversion(h, m), h) /\ Covers(Conversion(h, m), m)
          /\ \A h \in Mode : Conversion(h, m) \in Mode
      BY CoversOrder, ConversionType, IntentModes
    <3>6. /\ held' \in [Trans -> [Items -> Mode]]
          /\ \A v \in Trans, j \in Items : Covers(held'[v][j], held[v][j])
          /\ Covers(held'[t][i], m)
      <4>1. CASE held' = held /\ Covers(held[t][i], op[t].mode)
        BY <4>1, <3>4, <3>5, <1>0 DEF TypeOK
      <4>2. CASE held' = [held EXCEPT ![t][i] = Conversion(@, op[t].mode)]
        BY <4>2, <3>1, <3>4, <3>5, <1>0 DEF TypeOK
      <4> QED BY <4>1, <4>2, <2>2
    <3> QED BY <3>1, <3>3, <3>4, <3>6, <1>2
  <2>3. CASE LightLock(t) \/ LockInternalLight(t) \/ GrantHeavy(t)
    <3>1. /\ AddLockSlot(t) /\ pc[t] \in {"lightLock", "lock", "scan"}
          /\ held' = [held EXCEPT ![t][i] = Conversion(@, op[t].mode)]
      BY <2>3 DEF LightLock, LockInternalLight, GrantLight, GrantHeavy, AtDecision
    <3>2. op[t] \in Slot
      BY <3>1, <1>0 DEF OpInv
    <3> QED BY <3>1, <3>2, <2>2
  <2>4. CASE WakeUp(t)
    <3>1. AddLockSlot(t) /\ pc[t] \in {"wait", "checked"} /\ held' = held /\ mStatus[t] = "BEGIN"
      BY <2>4 DEF WakeUp, Waiting
    <3>2. op[t] \in Slot /\ i \in Items
      BY <3>1, <1>0 DEF OpInv, Slot
    <3>3. Covers(held[t][i], op[t].mode)
      BY <3>1, <3>2 DEF IInv, ItemInv, WaitItem, Waiting
    <3> QED BY <3>1, <3>2, <3>3, <2>2
  <2>5. CASE LightUnlock(t) \/ UnlockHeavy(t)
    <3>1. /\ ReleaseNode(t, i, op[t].mode) /\ pc[t] \in {"lightUnlock", "unlock"}
          /\ pc'[t] \in {"settle", after[t]} /\ i \in Items /\ op[t].mode \in Mode
      BY <2>5, <1>0 DEF TypeOK, OpInv, LightUnlock, UnlockHeavy, ReleaseGranted, Return, thrVars
    <3>2. Unlocks(t)
      BY <3>1, <1>0 DEF Unlocks, TypeOK
    <3>3. ~ Locks(t)
      <4>1. slots[t] \in Seq(Slot) /\ slots'[t] = SlotRemoved(t, i, op[t].mode)
        BY <3>1, <1>0 DEF ReleaseNode, TypeOK
      <4>2. CASE HasSlot(t, i, op[t].mode)
        <5>1. PICK k \in DOMAIN slots[t] : slots[t][k] = [item |-> i, mode |-> op[t].mode]
          BY <4>2 DEF HasSlot, ToSet
        <5>2. PICK n \in 1 .. Len(slots[t]) : slots'[t] = RemoveAt(slots[t], n)
          <6>1. PICK n \in DOMAIN slots[t] :
                  n = CHOOSE l \in DOMAIN slots[t] : slots[t][l] = [item |-> i, mode |-> op[t].mode]
            BY <5>1
          <6>2. slots'[t] = RemoveAt(slots[t], n)
            BY <4>1, <4>2, <6>1 DEF SlotRemoved
          <6>3. n \in 1 .. Len(slots[t])
            BY <4>1, <6>1
          <6> QED BY <6>2, <6>3
        <5>3. Len(slots'[t]) = Len(slots[t]) - 1
          BY <4>1, <5>2, RemoveAtProperties
        <5> QED BY <4>1, <5>3 DEF Locks
      <4>3. CASE ~ HasSlot(t, i, op[t].mode)
        BY <4>1, <4>3 DEF SlotRemoved, Locks
      <4> QED BY <4>2, <4>3
    <3>4. acked' = [acked EXCEPT ![t][i] = StillAcked(t, i, op[t].mode)]
      BY <3>2, <3>3, <1>6 DEF HStep
    <3>5. StillAcked(t, i, op[t].mode) \in SUBSET LockMode
      BY <3>1 DEF StillAcked, Acked
    <3>6. Acked'
      BY <3>1, <3>4, <3>5 DEF Acked
    <3>7. ASSUME NEW n \in acked'[t][i] PROVE Covers(held'[t][i], n)
      <4>1. held'[t][i] = Decision(Kept(t, i, op[t].mode)) /\ n \in StillAcked(t, i, op[t].mode)
        BY <3>1, <3>4, <3>7, <1>0 DEF ReleaseNode, TypeOK, Acked
      <4>2. held[t][i] = Decision(nodeFlag[t][i])
        BY <3>1 DEF ModeInv, ConversionDue, Waiting
      <4>3. PICK f \in SUBSET LockMode, a \in SUBSET LockMode, m \in Mode :
              f = nodeFlag[t][i] /\ a = acked[t][i] /\ m = op[t].mode
        BY <3>1, <1>0 DEF TypeOK, Acked
      <4>4. PICK kept : kept = IF m = "N" THEN {} ELSE f \ {m}
        OBVIOUS
      <4>5. \A x \in a : Covers(Decision(f), x)
        BY <3>1, <4>2, <4>3 DEF AckedIsHeld, Covers
      <4>6. n \in IF m = "IS" THEN a \ {"IS"} ELSE a \cap kept
        BY <4>1, <4>3, <4>4 DEF StillAcked, Kept
      <4>7. Covers(Decision(kept), n)
        BY <4>4, <4>5, <4>6, AckedReleased
      <4> QED BY <4>1, <4>3, <4>4, <4>7 DEF Kept
    <3>8. ASSUME NEW v \in Trans, NEW j \in Items, v # t \/ j # i, NEW n \in acked'[v][j]
          PROVE  Covers(held'[v][j], n)
      <4>1. held'[v][j] = held[v][j] /\ acked'[v][j] = acked[v][j]
        BY <3>1, <3>4, <3>8, <1>0 DEF ReleaseNode, TypeOK, Acked
      <4> QED BY <4>1, <3>8 DEF AckedIsHeld, Covers
    <3> QED BY <3>6, <3>7, <3>8 DEF AckedIsHeld, Covers
  <2>6. CASE (WakeUpHead(t) \/ ToLightHead(t)) /\ Inside(t) /\ Step(t)
    <3>1. i \in Items /\ pc[t] \notin {"lightUnlock", "unlock"}
      BY <2>6, InsideFrame DEF WakeUpHead, ToLightHead
    <3>2. PICK u, new : u = Head(request[i]) /\ new = Conversion(held[u][i], op[u].mode)
      OBVIOUS
    <3>3. ResumesHead(i, u, new)
      BY <2>6, <3>1, <3>2, HeadConverted
    <3>4. Resumed(i, u, new)
      BY <3>1, <3>3, ResumeFacts
    <3>5. u \in Trans /\ slots' = slots /\ held'[u][i] = new /\ held' \in [Trans -> [Items -> Mode]]
          /\ \A v \in Trans, j \in Items : v # u \/ j # i => held'[v][j] = held[v][j]
      BY <3>4 DEF Resumed
    <3>6. PICK a \in Mode, b \in Mode : a = held[u][i] /\ b = op[u].mode
      BY <3>1, <3>5, <1>0 DEF TypeOK
    <3>7. Covers(new, held[u][i])
      BY <3>2, <3>6, CoversOrder
    <3>8. \A v \in Trans, j \in Items : Covers(held'[v][j], held[v][j])
      <4>1. \A v \in Trans, j \in Items : Covers(held[v][j], held[v][j])
        BY <1>0, CoversOrder DEF TypeOK
      <4> QED BY <4>1, <3>5, <3>7
    <3>9. acked' = acked
      BY <3>1, <3>5, <2>0
    <3> QED BY <3>5, <3>8, <3>9, <1>3
  <2>7. CASE \/ BeginHeavy(t) \/ (\E s \in Trans : Scan(t, s)) \/ Block(t) \/ CheckDeadlock(t) \/ NoWait(t)
             \/ Settle(t) \/ WakeUpDone(t) \/ ToLightDone(t) \/ Deadlock(t) \/ TimeOut(t)
    <3>1. held' = held /\ slots' = slots /\ pc[t] \notin {"lightUnlock", "unlock"}
      BY <2>7 DEF BeginHeavy, Scan, Block, CheckDeadlock, NoWait, AtDecision, Settle, WakeUpDone, ToLightDone,
         Leave, Deadlock, TimeOut, LeaveQueue, nodeVars
    <3> QED BY <3>1, <2>0, <1>1
  <2>8. ~ SessionEvent(t)
    BY DEF SessionEvent
  <2>9. WakeUpHead(t) \/ ToLightHead(t) => Inside(t)
    BY DEF WakeUpHead, ToLightHead, Inside, PC
  <2> QED BY <1>6, <2>1, <2>3, <2>4, <2>5, <2>6, <2>7, <2>8, <2>9 DEF HStep, Step
<1> QED BY <1>4, <1>5, <1>6 DEF HNext

\* The invariant with the client's memory, for every instance without session events.
THEOREM HistoryInvariance == "event" \notin Failure => (HSpec => [](HInv /\ AckedIsHeld))
<1> SUFFICES ASSUME "event" \notin Failure PROVE HSpec => [](HInv /\ AckedIsHeld)
  OBVIOUS
<1>1. HInit => HInv /\ AckedIsHeld
  <2> SUFFICES ASSUME HInit PROVE HInv /\ AckedIsHeld
    OBVIOUS
  <2>1. IInv
    BY InitInv DEF HInit
  <2>2. WaitInv /\ DeadlockInv
    BY InitWait, InitDeadlock DEF HInit
  <2>3. \A t \in Trans : ModeInv(t)
    BY DEF HInit, Init, ModeInv, ConversionDue, Waiting, Decision
  <2>4. acked \in [Trans -> [Items -> SUBSET LockMode]] /\ AckedIsHeld
    BY DEF HInit, AckedIsHeld
  <2> QED BY <2>1, <2>2, <2>3, <2>4 DEF HInv
<1>2. HInv /\ AckedIsHeld /\ [HNext]_hvars => HInv' /\ AckedIsHeld'
  <2> SUFFICES ASSUME HInv, AckedIsHeld, [HNext]_hvars PROVE HInv' /\ AckedIsHeld'
    OBVIOUS
  <2>1. IInv' /\ WaitInv' /\ DeadlockInv'
    BY HistoryIsNext, NextInv, WaitStep, DeadlockStep DEF HInv
  <2>2. \A t \in Trans : ModeInv(t)'
    BY HistoryIsNext, ModeStep DEF HInv
  <2>3. Acked' /\ AckedIsHeld'
    BY AckedStep DEF HInv, Acked
  <2> QED BY <2>1, <2>2, <2>3 DEF HInv, Acked
<1> QED BY <1>1, <1>2, PTL DEF HSpec

\* What lockTable has reported as locked is covered by what the transaction holds until
\* the client gives it back, if no query timeout or closed session ends a wait
\* (partialItemUnlock, the release of one slot of a node, wake-ups and time-outs).
THEOREM ReportedIsHeld == "event" \notin Failure => (HSpec => []AckedIsHeld)
<1> SUFFICES ASSUME "event" \notin Failure PROVE HSpec => []AckedIsHeld
  OBVIOUS
<1>1. HSpec => [](HInv /\ AckedIsHeld)
  BY HistoryInvariance
<1> QED BY <1>1, PTL
=============================================================================
