------------------------------- MODULE LockMgr -------------------------------
(***************************************************************************)
(* The table-lock manager of the storage manager (sml/smlLockMgr.cpp) with *)
(* the wait of a transaction for a table lock (smx/smxTransMgr.cpp,        *)
(* smxTransMgr::waitForLock; smx/smxTrans.cpp, smxTrans::suspend, resume). *)
(*                                                                         *)
(* An item (a table, a tablespace or a data file) is in light mode while   *)
(* it is only locked IS and IX: such locks are granted under the mutex of  *)
(* the requester's own lock node list and leave no trace in the item.  The *)
(* first S, X or SIX request takes the item's mutex, drops the light flag  *)
(* and collects the holders from every transaction's list; from then on    *)
(* the item has a grant list, a request list and a group mode.  An unlock  *)
(* that leaves only intent modes puts the item back into light mode.       *)
(*                                                                         *)
(* One action is one critical section of the code: what runs under one     *)
(* hold of an item mutex is cut at each transaction visited (Scan, WakeUp- *)
(* Head, ToLightHead), the two ends of a section under a list mutex are    *)
(* two actions (LockTable and LightLock, Unlock and LightUnlock).          *)
(***************************************************************************)
EXTENDS LockModes, Naturals, FiniteSets, SequencesExt

CONSTANTS
  Trans,       \* transaction slots (mArrOfLockList, mTransCnt)
  Items,       \* lock items
  AskedMode,   \* bound: the modes that transactions ask for
  Failure,     \* bound: how a request may fail, other than by a deadlock
  NoTrans,     \* "nobody holds the mutex"
  NoItem       \* "no operation in progress"

ASSUME ConstAssumption ==
  /\ IsFiniteSet(Trans)
  /\ AskedMode \subseteq LockMode
  /\ Failure \subseteq {"nowait", "timeout", "event"}
  /\ NoTrans \notin Trans
  /\ NoItem \notin Items

VARIABLES
  \* smlLockItem
  mFlag,           \* mask of the granted modes, or {"LIGHT"}
  mGrantLockMode,  \* the group mode
  mArrLockCount,   \* per mode, the number of granted nodes
  grant,           \* transactions with a node in the grant list
  request,         \* transactions with a node in the request list, in order
  mutex,           \* holder of mMutex between two actions
  \* smlTransLockList and smlLockNode
  held,            \* mLockMode of the node in the lock node list, or "N"
  nodeFlag,        \* mFlag of that node: the modes it was locked in
  slots,           \* lock slot list, in the order of mLockSequence
  \* mWaitForTable: the row of a transaction
  waitsFor,        \* columns with mIndex = 1
  chain,           \* columns linked by mNxtWaitTransItem
  \* smxTrans and the thread that runs it
  mStatus,         \* SMX_TX_BEGIN or SMX_TX_BLOCKED
  pc,              \* where the thread is
  op,              \* item and mode of the lock or unlock it is in
  cvs,             \* its request node has an mCvsLockNode
  scan,            \* slots it has yet to visit (lockTableInternal)
  after            \* what it does when it has released the item mutex

itemVars == <<mFlag, mGrantLockMode, mArrLockCount, grant, request>>
nodeVars == <<held, nodeFlag, slots>>
waitVars == <<waitsFor, chain>>
thrVars  == <<mStatus, op, cvs, scan, after>>
vars == <<itemVars, mutex, nodeVars, waitVars, thrVars, pc>>

Slot == [item : Items, mode : LockMode]
NoOp == [item |-> NoItem, mode |-> "N"]

PC == {"run",          \* outside the lock manager
       "lightLock",    \* holds its list mutex, saw light mode
       "lock",         \* wants the item mutex to lock
       "scan",         \* collects the holders of the item
       "wait",         \* suspended before its deadlock check
       "checked",      \* suspended after it
       "end",          \* between two unlocks of the transaction's end
       "lightUnlock",  \* holds its list mutex, saw light mode
       "unlock",       \* wants the item mutex to unlock
       "settle",       \* has released, chooses light mode or wake-up
       "wakeup",       \* grants the requests that can be
       "toLight"}      \* grants all requests and returns to light mode

TypeOK ==
  /\ mFlag \in [Items -> SUBSET (LockMode \cup {"LIGHT"})]
  /\ mGrantLockMode \in [Items -> Mode]
  /\ mArrLockCount \in [Items -> [LockMode -> Nat]]
  /\ grant \in [Items -> SUBSET Trans]
  /\ request \in [Items -> Seq(Trans)]
  /\ mutex \in [Items -> Trans \cup {NoTrans}]
  /\ held \in [Trans -> [Items -> Mode]]
  /\ nodeFlag \in [Trans -> [Items -> SUBSET LockMode]]
  /\ slots \in [Trans -> Seq(Slot)]
  /\ waitsFor \in [Trans -> SUBSET Trans]
  /\ chain \in [Trans -> SUBSET Trans]
  /\ mStatus \in [Trans -> {"BEGIN", "BLOCKED"}]
  /\ pc \in [Trans -> PC]
  /\ op \in [Trans -> [item : Items \cup {NoItem}, mode : Mode]]
  /\ cvs \in [Trans -> BOOLEAN]
  /\ scan \in [Trans -> SUBSET Trans]
  /\ after \in [Trans -> {"run", "end", "abort"}]

\* initLockItem, clearLockItem, initTransLockList
Init ==
  /\ mFlag = [i \in Items |-> {"LIGHT"}]
  /\ mGrantLockMode = [i \in Items |-> "N"]
  /\ mArrLockCount = [i \in Items |-> [m \in LockMode |-> 0]]
  /\ grant = [i \in Items |-> {}]
  /\ request = [i \in Items |-> <<>>]
  /\ mutex = [i \in Items |-> NoTrans]
  /\ held = [t \in Trans |-> [i \in Items |-> "N"]]
  /\ nodeFlag = [t \in Trans |-> [i \in Items |-> {}]]
  /\ slots = [t \in Trans |-> <<>>]
  /\ waitsFor = [t \in Trans |-> {}]
  /\ chain = [t \in Trans |-> {}]
  /\ mStatus = [t \in Trans |-> "BEGIN"]
  /\ pc = [t \in Trans |-> "run"]
  /\ op = [t \in Trans |-> NoOp]
  /\ cvs = [t \in Trans |-> FALSE]
  /\ scan = [t \in Trans |-> {}]
  /\ after = [t \in Trans |-> "run"]

-----------------------------------------------------------------------------
(* Parts of the state and of the steps.                                    *)

Light(i) == mFlag[i] = {"LIGHT"}

MutexFree(t) == mutex[op[t].item] = NoTrans

HoldsListMutex(t) == pc[t] \in {"lightLock", "lightUnlock"}

HasSlot(t, i, m) == [item |-> i, mode |-> m] \in ToSet(slots[t])

\* lockTable returns at once when the node's mode covers the request, except
\* that IS always gets a slot of its own.
NeedsLock(t, i, m) ==
  \/ Conversion(held[t][i], m) # held[t][i]
  \/ m = "IS" /\ ~ HasSlot(t, i, "IS")

\* Mutant of CountMoved: a conversion is not counted under its new mode.
CountMovedConversionLost(count, old, new) ==
  [m \in LockMode |->
     IF m = new /\ old = "N" THEN count[m] + 1
     ELSE IF m = old /\ m # new THEN count[m] - 1
     ELSE count[m]]

\* decTblLockModeAndTryUpdate of old, then incTblLockModeAndUpdate of new,
\* "N" standing for no such call.
CountMoved(count, old, new) ==
  [m \in LockMode |->
     IF m = new /\ m # old THEN count[m] + 1
     ELSE IF m = old /\ m # new THEN count[m] - 1
     ELSE count[m]]

\* Mutant of FlagMoved: the bit goes though others hold the mode.
FlagMovedUncounted(flag, count, old, new) ==
  (IF old # "N" THEN flag \ {old} ELSE flag) \cup ({new} \ {"N"})

FlagMoved(flag, count, old, new) ==
  (IF old # "N" /\ count[old] = 1 THEN flag \ {old} ELSE flag)
    \cup ({new} \ {"N"})

SetGranted(i, old, new) ==
  /\ mArrLockCount' = [mArrLockCount EXCEPT ![i] = CountMoved(@, old, new)]
  /\ mFlag' = [mFlag EXCEPT ![i] = FlagMoved(@, mArrLockCount[i], old, new)]

\* Mutant of AddLockSlot: the node's mask is assigned where a bit is to be set.
AddLockSlotMaskAssigned(t) ==
  /\ nodeFlag' = [nodeFlag EXCEPT ![t][op[t].item] = {op[t].mode}]
  /\ slots' = [slots EXCEPT ![t] = Append(@, op[t])]

\* setLockModeAndAddLockSlot of a request that was granted
AddLockSlot(t) ==
  /\ nodeFlag' = [nodeFlag EXCEPT ![t][op[t].item] = @ \cup {op[t].mode}]
  /\ slots' = [slots EXCEPT ![t] = Append(@, op[t])]

\* The row of t in the wait-for table is emptied (clearWaitItemColsOfTrans
\* with aDoInit).
ClearRow(t) ==
  /\ waitsFor' = [waitsFor EXCEPT ![t] = {}]
  /\ chain' = [chain EXCEPT ![t] = {}]

\* clearWaitTableRows: the column of each gone transaction, in the rows of
\* those that wait for item i.
ColumnsCleared(i, gone) ==
  [u \in Trans |-> IF u \in ToSet(request[i]) THEN waitsFor[u] \ gone
                                              ELSE waitsFor[u]]

\* The modes a node keeps when its slot of mode m, or with "N" the node, is
\* unlocked.
Kept(t, i, m) == IF m = "N" THEN {} ELSE nodeFlag[t][i] \ {m}

\* Mutant of SlotRemoved: the slot stays linked.
SlotRemovedNot(t, i, m) == slots[t]

\* removeLockSlot; unlocking a node leaves the slot list to initTransLockList
SlotRemoved(t, i, m) ==
  IF HasSlot(t, i, m)
  THEN RemoveAt(slots[t], CHOOSE k \in DOMAIN slots[t] :
                             slots[t][k] = [item |-> i, mode |-> m])
  ELSE slots[t]

Return(t, to) ==
  /\ pc' = [pc EXCEPT ![t] = to]
  /\ op' = [op EXCEPT ![t] = NoOp]

-----------------------------------------------------------------------------
(* lockTable                                                               *)

\* findLockNode, the early return, and for an intent mode the light flag read
\* under the transaction's own list mutex.
LockTable(t, i, m) ==
  /\ pc[t] = "run"
  /\ NeedsLock(t, i, m)
  /\ op' = [op EXCEPT ![t] = [item |-> i, mode |-> m]]
  /\ pc' = [pc EXCEPT ![t] = IF m \in IntentMode /\ Light(i)
                             THEN "lightLock" ELSE "lock"]
  /\ UNCHANGED <<itemVars, mutex, nodeVars, waitVars, mStatus, cvs, scan, after>>

\* The node is added or converted, and nothing else than the node.
GrantLight(t) ==
  /\ held' = [held EXCEPT ![t][op[t].item] = Conversion(@, op[t].mode)]
  /\ AddLockSlot(t)
  /\ Return(t, "run")
  /\ UNCHANGED <<itemVars, mutex, waitVars, mStatus, cvs, scan, after>>

LightLock(t) ==
  /\ pc[t] = "lightLock"
  /\ GrantLight(t)

-----------------------------------------------------------------------------
(* lockTableInternal                                                       *)

\* The item is back in light mode by the time its mutex is held.
LockInternalLight(t) ==
  /\ pc[t] = "lock"
  /\ MutexFree(t)
  /\ Light(op[t].item)
  /\ op[t].mode \in IntentMode
  /\ GrantLight(t)

\* sIsFirstDDL: the light flag goes before the lists are visited.
BeginHeavy(t) ==
  LET i == op[t].item IN
  /\ pc[t] = "lock"
  /\ MutexFree(t)
  /\ Light(i)
  /\ op[t].mode \notin IntentMode
  /\ mutex' = [mutex EXCEPT ![i] = t]
  /\ mFlag' = [mFlag EXCEPT ![i] = {}]
  /\ scan' = [scan EXCEPT ![t] = Trans]
  /\ pc' = [pc EXCEPT ![t] = "scan"]
  /\ UNCHANGED <<mGrantLockMode, mArrLockCount, grant, request, nodeVars,
                 waitVars, mStatus, op, cvs, after>>

\* Mutant of Scan: the list is visited without its mutex.
ScanUnlocked(t, s) ==
  LET i == op[t].item IN
  /\ pc[t] = "scan"
  /\ s \in scan[t]
  /\ scan' = [scan EXCEPT ![t] = @ \ {s}]
  /\ IF held[s][i] = "N"
     THEN UNCHANGED itemVars
     ELSE /\ SetGranted(i, "N", held[s][i])
          /\ grant' = [grant EXCEPT ![i] = @ \cup {s}]
          /\ mGrantLockMode' =
               [mGrantLockMode EXCEPT ![i] = Conversion(@, held[s][i])]
          /\ UNCHANGED request
  /\ UNCHANGED <<mutex, nodeVars, waitVars, mStatus, op, cvs, after, pc>>

\* The list of s is visited under its mutex; the order is free.
Scan(t, s) ==
  LET i == op[t].item IN
  /\ pc[t] = "scan"
  /\ s \in scan[t]
  /\ ~ HoldsListMutex(s)
  /\ scan' = [scan EXCEPT ![t] = @ \ {s}]
  /\ IF held[s][i] = "N"
     THEN UNCHANGED itemVars
     ELSE /\ SetGranted(i, "N", held[s][i])
          /\ grant' = [grant EXCEPT ![i] = @ \cup {s}]
          /\ mGrantLockMode' =
               [mGrantLockMode EXCEPT ![i] = Conversion(@, held[s][i])]
          /\ UNCHANGED request
  /\ UNCHANGED <<mutex, nodeVars, waitVars, mStatus, op, cvs, after, pc>>

\* Where the request of t is decided, the item's lists being complete.
AtDecision(t) ==
  \/ pc[t] = "lock" /\ MutexFree(t) /\ ~ Light(op[t].item)
  \/ pc[t] = "scan" /\ scan[t] = {}

\* Mutant of Compatibly: a new holder does not look at the request list.
CompatiblyOvertaking(t) == Compatible(mGrantLockMode[op[t].item], op[t].mode)

\* A compatible request of a new holder waits all the same behind a request.
Compatibly(t) ==
  LET i == op[t].item IN
  /\ Compatible(mGrantLockMode[i], op[t].mode)
  /\ held[t][i] # "N" \/ request[i] = <<>>

\* Mutant of SoleHolder: any conversion is granted in place.
SoleHolderUncounted(t) == held[t][op[t].item] # "N"

SoleHolder(t) ==
  held[t][op[t].item] # "N" /\ Cardinality(grant[op[t].item]) = 1

GrantHeavy(t) ==
  LET i == op[t].item
      new == Conversion(held[t][i], op[t].mode) IN
  /\ AtDecision(t)
  /\ Compatibly(t) \/ SoleHolder(t)
  /\ SetGranted(i, held[t][i], new)
  /\ grant' = [grant EXCEPT ![i] = @ \cup {t}]
  /\ mGrantLockMode' = [mGrantLockMode EXCEPT ![i] = Conversion(@, op[t].mode)]
  /\ held' = [held EXCEPT ![t][i] = new]
  /\ AddLockSlot(t)
  /\ mutex' = [mutex EXCEPT ![i] = NoTrans]
  /\ Return(t, "run")
  /\ UNCHANGED <<request, waitVars, mStatus, cvs, scan, after>>

\* Mutant of Blockers: registTblLockWaitListByReq is forgotten.
BlockersByGrant(t) == grant[op[t].item] \ {t}

\* registTblLockWaitListByReq and ByGrant: whom the new request waits for.
Blockers(t) ==
  LET i == op[t].item
      ahead == IF held[t][i] = "N" THEN ToSet(request[i]) ELSE {} IN
  (ahead \cup grant[i]) \ {t}

\* The request is queued and the transaction suspended, which releases the
\* item's mutex.  A conversion goes to the head of the queue.
Block(t) ==
  LET i == op[t].item
      conversion == held[t][i] # "N" IN
  /\ AtDecision(t)
  /\ ~ (Compatibly(t) \/ SoleHolder(t))
  /\ request' = [request EXCEPT ![i] =
                   IF conversion THEN <<t>> \o @ ELSE Append(@, t)]
  /\ cvs' = [cvs EXCEPT ![t] = conversion]
  /\ waitsFor' = [waitsFor EXCEPT ![t] = @ \cup (Blockers(t) \ chain[t])]
  /\ chain' = [chain EXCEPT ![t] = @ \cup Blockers(t)]
  /\ mStatus' = [mStatus EXCEPT ![t] = "BLOCKED"]
  /\ mutex' = [mutex EXCEPT ![i] = NoTrans]
  /\ pc' = [pc EXCEPT ![t] = "wait"]
  /\ UNCHANGED <<mFlag, mGrantLockMode, mArrLockCount, grant, nodeVars, op,
                 scan, after>>

\* toLightMode, first part: the grant list is taken apart.
UnlinkGrants(t) ==
  LET i == op[t].item IN
  /\ grant' = [grant EXCEPT ![i] = {}]
  /\ waitsFor' = ColumnsCleared(i, grant[i])
  /\ pc' = [pc EXCEPT ![t] = "toLight"]

\* aLockWaitMicroSec is 0.  The failed first DDL restores light mode.
NoWait(t) ==
  /\ "nowait" \in Failure
  /\ AtDecision(t)
  /\ ~ (Compatibly(t) \/ SoleHolder(t))
  /\ IF pc[t] = "scan"
     THEN UnlinkGrants(t) /\ UNCHANGED <<mutex, op>>
     ELSE Return(t, "run") /\ UNCHANGED <<grant, waitsFor, mutex>>
  /\ UNCHANGED <<mFlag, mGrantLockMode, mArrLockCount, request, nodeVars,
                 chain, mStatus, cvs, scan, after>>

-----------------------------------------------------------------------------
(* unlockTable and unlockTableInternal.  With m = "N" the whole node is    *)
(* unlocked (the end of the transaction, a wait that failed), else its     *)
(* slot of mode m.                                                         *)

\* freeAllItemLockExceptIS and partialItemUnlock release the last slot, and
\* the latter at a statement's end also an IS slot before it; IS slots may
\* stay behind a slot that is released.
UnlockSlot(t, k) ==
  LET s == slots[t] IN
  /\ pc[t] = "run"
  /\ k \in DOMAIN s
  /\ s[k].mode = "IS" \/ \A l \in k + 1 .. Len(s) : s[l].mode = "IS"
  /\ op' = [op EXCEPT ![t] = s[k]]
  /\ pc' = [pc EXCEPT ![t] = IF Light(s[k].item) THEN "lightUnlock" ELSE "unlock"]
  /\ UNCHANGED <<itemVars, mutex, nodeVars, waitVars, mStatus, cvs, scan, after>>

\* smxTrans::end: freeAllItemLock unlocks every node, in whatever order here.
EndTrans(t) ==
  /\ pc[t] = "run"
  /\ \E i \in Items : held[t][i] # "N"
  /\ pc' = [pc EXCEPT ![t] = "end"]
  /\ UNCHANGED <<itemVars, mutex, nodeVars, waitVars, thrVars>>

UnlockNode(t, i) ==
  /\ pc[t] = "end"
  /\ held[t][i] # "N"
  /\ op' = [op EXCEPT ![t] = [item |-> i, mode |-> "N"]]
  /\ after' = [after EXCEPT ![t] = "end"]
  /\ pc' = [pc EXCEPT ![t] = IF Light(i) THEN "lightUnlock" ELSE "unlock"]
  /\ UNCHANGED <<itemVars, mutex, nodeVars, waitVars, mStatus, cvs, scan>>

\* The next transaction of the slot starts with empty lists.
EndDone(t) ==
  /\ pc[t] = "end"
  /\ \A i \in Items : held[t][i] = "N"
  /\ slots' = [slots EXCEPT ![t] = <<>>]
  /\ pc' = [pc EXCEPT ![t] = "run"]
  /\ UNCHANGED <<itemVars, mutex, held, nodeFlag, waitVars, thrVars>>

\* The node is left with the mode decided by the slots it keeps, or freed.
ReleaseNode(t, i, m) ==
  /\ nodeFlag' = [nodeFlag EXCEPT ![t][i] = Kept(t, i, m)]
  /\ held' = [held EXCEPT ![t][i] = Decision(Kept(t, i, m))]
  /\ slots' = [slots EXCEPT ![t] = SlotRemoved(t, i, m)]

\* Light mode seen under the list mutex, or under the item mutex.
LightUnlock(t) ==
  /\ \/ pc[t] = "lightUnlock"
     \/ pc[t] = "unlock" /\ MutexFree(t) /\ Light(op[t].item)
  /\ ReleaseNode(t, op[t].item, op[t].mode)
  /\ Return(t, after[t])
  /\ after' = [after EXCEPT ![t] = "run"]
  /\ UNCHANGED <<itemVars, mutex, waitVars, mStatus, cvs, scan>>

ReleaseGranted(t, i, m) ==
  LET new == Decision(Kept(t, i, m))
      gone == Kept(t, i, m) = {} IN
  /\ SetGranted(i, held[t][i], new)
  /\ grant' = [grant EXCEPT ![i] = IF gone THEN @ \ {t} ELSE @]
  /\ mGrantLockMode' = [mGrantLockMode EXCEPT ![i] = Decision(mFlag'[i])]
  /\ waitsFor' = IF gone THEN ColumnsCleared(i, {t}) ELSE waitsFor
  /\ ReleaseNode(t, i, m)
  /\ UNCHANGED <<request, chain>>

UnlockHeavy(t) ==
  LET i == op[t].item IN
  /\ pc[t] = "unlock"
  /\ MutexFree(t)
  /\ ~ Light(i)
  /\ ReleaseGranted(t, i, op[t].mode)
  /\ mutex' = [mutex EXCEPT ![i] = t]
  /\ pc' = [pc EXCEPT ![t] = "settle"]
  /\ UNCHANGED <<thrVars>>

\* Mutant of OnlyIntent: the requests are not looked at.
OnlyIntentGranted(i) == mGrantLockMode[i] \notin HeavyMode

\* sUnlinkAll: nothing granted or asked for is S, X or SIX.
OnlyIntent(i) ==
  /\ mGrantLockMode[i] \notin HeavyMode
  /\ \A k \in DOMAIN request[i] : op[request[i][k]].mode \notin HeavyMode

\* The mutex is released; a failed wait clears the row it left behind.
Leave(t) ==
  /\ mutex' = [mutex EXCEPT ![op[t].item] = NoTrans]
  /\ IF after[t] = "abort"
     THEN ClearRow(t) /\ Return(t, "run")
     ELSE UNCHANGED waitVars /\ Return(t, after[t])
  /\ after' = [after EXCEPT ![t] = "run"]
  /\ UNCHANGED <<nodeVars, mStatus, cvs, scan>>

\* Mutant of Settle: the wake-up of the queue is forgotten.
SettleSilent(t) ==
  /\ pc[t] = "settle"
  /\ IF OnlyIntent(op[t].item)
     THEN UnlinkGrants(t) /\ UNCHANGED <<mutex, nodeVars, chain, thrVars>>
     ELSE Leave(t) /\ UNCHANGED grant
  /\ UNCHANGED <<mFlag, mGrantLockMode, mArrLockCount, request>>

Settle(t) ==
  /\ pc[t] = "settle"
  /\ IF OnlyIntent(op[t].item)
     THEN UnlinkGrants(t)
     ELSE pc' = [pc EXCEPT ![t] = "wakeup"] /\ UNCHANGED <<grant, waitsFor>>
  /\ UNCHANGED <<mFlag, mGrantLockMode, mArrLockCount, request, mutex,
                 nodeVars, chain, thrVars>>

-----------------------------------------------------------------------------
(* wakeupRequestLockNodeInLockItem and toLightMode: one request per step,  *)
(* from the head; each resumes the transaction that made it.               *)

\* Mutant of Resume: the transaction is not resumed.
ResumeForgotten(u, i, new) ==
  /\ request' = [request EXCEPT ![i] = Tail(@)]
  /\ held' = [held EXCEPT ![u][i] = new]
  /\ nodeFlag' = [nodeFlag EXCEPT ![u][i] = IF cvs[u] THEN @ ELSE {op[u].mode}]
  /\ waitsFor' = [waitsFor EXCEPT ![u] = {}]
  /\ UNCHANGED <<slots, chain, mutex, mStatus, op, cvs, scan, after, pc>>

\* u is resumed with mode new; it waits for nobody, its chain stays linked.
Resume(u, i, new) ==
  /\ request' = [request EXCEPT ![i] = Tail(@)]
  /\ held' = [held EXCEPT ![u][i] = new]
  /\ nodeFlag' = [nodeFlag EXCEPT ![u][i] = IF cvs[u] THEN @ ELSE {op[u].mode}]
  /\ waitsFor' = [waitsFor EXCEPT ![u] = {}]
  /\ mStatus' = [mStatus EXCEPT ![u] = "BEGIN"]
  /\ UNCHANGED <<slots, chain, mutex, op, cvs, scan, after, pc>>

Grantable(u, i) ==
  \/ Compatible(op[u].mode, mGrantLockMode[i])
  \/ Cardinality(grant[i]) = 1 /\ cvs[u]

WakeUpHead(t) ==
  LET i == op[t].item
      u == Head(request[i])
      group == Conversion(mGrantLockMode[i], op[u].mode)
      new == IF Compatible(op[u].mode, mGrantLockMode[i])
             THEN Conversion(held[u][i], op[u].mode) ELSE group IN
  /\ pc[t] = "wakeup"
  /\ request[i] # <<>>
  /\ Grantable(u, i)
  /\ SetGranted(i, held[u][i], new)
  /\ grant' = [grant EXCEPT ![i] = @ \cup {u}]
  /\ mGrantLockMode' = [mGrantLockMode EXCEPT ![i] = group]
  /\ Resume(u, i, new)

WakeUpDone(t) ==
  LET i == op[t].item IN
  /\ pc[t] = "wakeup"
  /\ request[i] # <<>> => ~ Grantable(Head(request[i]), i)
  /\ Leave(t)
  /\ UNCHANGED itemVars

ToLightHead(t) ==
  LET i == op[t].item
      u == Head(request[i]) IN
  /\ pc[t] = "toLight"
  /\ request[i] # <<>>
  /\ Resume(u, i, Conversion(held[u][i], op[u].mode))
  /\ UNCHANGED <<mFlag, mGrantLockMode, mArrLockCount, grant>>

\* clearLockItem
ToLightDone(t) ==
  LET i == op[t].item IN
  /\ pc[t] = "toLight"
  /\ request[i] = <<>>
  /\ mFlag' = [mFlag EXCEPT ![i] = {"LIGHT"}]
  /\ mGrantLockMode' = [mGrantLockMode EXCEPT ![i] = "N"]
  /\ mArrLockCount' = [mArrLockCount EXCEPT ![i] = [m \in LockMode |-> 0]]
  /\ Leave(t)
  /\ UNCHANGED <<grant, request>>

-----------------------------------------------------------------------------
(* waitForLock: the suspended transaction takes the item mutex again, then *)
(* looks at its status.                                                    *)

Waiting(t) == pc[t] \in {"wait", "checked"}

WakeUp(t) ==
  /\ Waiting(t)
  /\ MutexFree(t)
  /\ mStatus[t] = "BEGIN"
  /\ ClearRow(t)
  /\ AddLockSlot(t)
  /\ cvs' = [cvs EXCEPT ![t] = FALSE]
  /\ Return(t, "run")
  /\ UNCHANGED <<itemVars, mutex, held, mStatus, scan, after>>

\* Mutant of PathFrom: only direct edges are followed.
PathFromDirect(t) == waitsFor[t]

\* The transactions found at path length at most n from t by isCycle: direct
\* edges, then the edges of those found; a column linked in the row of t,
\* be its mIndex 0 by now, is not entered again.
PathFrom(t) ==
  LET found[n \in 1 .. Cardinality(Trans)] ==
        IF n = 1 THEN waitsFor[t]
        ELSE found[n - 1] \cup
             {v \in Trans \ chain[t] : \E u \in found[n - 1] : v \in waitsFor[u]}
  IN found[Cardinality(Trans)]

isCycle(t) == t \in PathFrom(t)

CheckDeadlock(t) ==
  /\ pc[t] = "wait"
  /\ MutexFree(t)
  /\ mStatus[t] = "BLOCKED"
  /\ ~ isCycle(t)
  /\ pc' = [pc EXCEPT ![t] = "checked"]
  /\ UNCHANGED <<itemVars, mutex, nodeVars, waitVars, thrVars>>

\* Mutant of LeaveQueue: those queued behind are not looked at again.
LeaveQueueSilent(t) ==
  LET i == op[t].item
      k == CHOOSE n \in DOMAIN request[i] : request[i][n] = t IN
  /\ request' = [request EXCEPT ![i] = RemoveAt(@, k)]
  /\ ClearRow(t)
  /\ mStatus' = [mStatus EXCEPT ![t] = "BEGIN"]
  /\ cvs' = [cvs EXCEPT ![t] = FALSE]
  /\ Return(t, "run")
  /\ UNCHANGED <<mFlag, mGrantLockMode, mArrLockCount, grant, mutex, nodeVars,
                 scan, after>>

\* err_wait_lock while the request is queued.
LeaveQueue(t) ==
  LET i == op[t].item
      k == CHOOSE n \in DOMAIN request[i] : request[i][n] = t IN
  /\ request' = [request EXCEPT ![i] = RemoveAt(@, k)]
  /\ waitsFor' = IF cvs[t] THEN waitsFor ELSE ColumnsCleared(i, {t})
  /\ mutex' = [mutex EXCEPT ![i] = t]
  /\ after' = [after EXCEPT ![t] = "abort"]
  /\ mStatus' = [mStatus EXCEPT ![t] = "BEGIN"]
  /\ cvs' = [cvs EXCEPT ![t] = FALSE]
  /\ pc' = [pc EXCEPT ![t] = "settle"]
  /\ UNCHANGED <<mFlag, mGrantLockMode, mArrLockCount, grant, nodeVars, chain,
                 op, scan>>

Deadlock(t) ==
  /\ pc[t] = "wait"
  /\ MutexFree(t)
  /\ mStatus[t] = "BLOCKED"
  /\ isCycle(t)
  /\ LeaveQueue(t)

TimeOut(t) ==
  /\ "timeout" \in Failure
  /\ pc[t] = "checked"
  /\ MutexFree(t)
  /\ mStatus[t] = "BLOCKED"
  /\ LeaveQueue(t)

\* A query timeout or a closed session ends the wait whatever mStatus is: the
\* request may be queued, or granted already, as a new node or as a
\* conversion (mDoRemove), in which case the converted mode stays.
SessionEvent(t) ==
  LET i == op[t].item IN
  /\ "event" \in Failure
  /\ Waiting(t)
  /\ MutexFree(t)
  /\ \/ /\ mStatus[t] = "BLOCKED"
        /\ LeaveQueue(t)
     \/ /\ mStatus[t] = "BEGIN"
        /\ cvs[t] \/ Light(i)
        /\ IF cvs[t] THEN UNCHANGED nodeVars ELSE ReleaseNode(t, i, "N")
        /\ cvs' = [cvs EXCEPT ![t] = FALSE]
        /\ ClearRow(t)
        /\ Return(t, "run")
        /\ UNCHANGED <<itemVars, mutex, mStatus, scan, after>>
     \/ /\ mStatus[t] = "BEGIN"
        /\ ~ cvs[t] /\ ~ Light(i)
        /\ ReleaseGranted(t, i, "N")
        /\ mutex' = [mutex EXCEPT ![i] = t]
        /\ after' = [after EXCEPT ![t] = "abort"]
        /\ pc' = [pc EXCEPT ![t] = "settle"]
        /\ UNCHANGED <<mStatus, op, cvs, scan>>

-----------------------------------------------------------------------------

\* The steps of the lock manager's own code, once a client has called it.
Step(t) ==
  \/ LightLock(t) \/ LockInternalLight(t) \/ BeginHeavy(t)
  \/ \E s \in Trans : Scan(t, s)
  \/ GrantHeavy(t) \/ Block(t) \/ NoWait(t)
  \/ \E i \in Items : UnlockNode(t, i)
  \/ EndDone(t) \/ LightUnlock(t) \/ UnlockHeavy(t)
  \/ Settle(t) \/ WakeUpHead(t) \/ WakeUpDone(t)
  \/ ToLightHead(t) \/ ToLightDone(t)
  \/ WakeUp(t) \/ CheckDeadlock(t) \/ Deadlock(t)
  \/ TimeOut(t) \/ SessionEvent(t)

\* What its clients decide.
Call(t) ==
  \/ \E i \in Items, m \in AskedMode : LockTable(t, i, m)
  \/ \E k \in DOMAIN slots[t] : UnlockSlot(t, k)
  \/ EndTrans(t)

Next == \E t \in Trans : Call(t) \/ Step(t)

Spec == Init /\ [][Next]_vars

-----------------------------------------------------------------------------
(* Safety                                                                  *)

\* The mutex of an item is held across a step only by a thread that is in one
\* of the loops over the item's lists.
InLoop(t) == pc[t] \in {"scan", "settle", "wakeup", "toLight"}

\* Item i is between two critical sections and has its lists.
Stable(i) == mutex[i] = NoTrans /\ ~ Light(i)

\* Two transactions never hold modes on one item that mCompatibleTBL excludes,
\* whichever path granted them: light, heavy, conversion or wake-up.
GrantedCompatible ==
  \A i \in Items : \A t, u \in Trans :
    t # u => Compatible(held[t][i], held[u][i])

\* An item out of light mode accounts for all its holders: the grant list has
\* them all, mArrLockCount counts their modes, mFlag is the mask of them and
\* mGrantLockMode, which lockTableInternal and the wake-up extend by
\* conversion, is what mDecisionTBL makes of the mask.
GroupModeAgrees ==
  \A i \in Items : Stable(i) =>
    /\ grant[i] = {t \in Trans : held[t][i] # "N"}
    /\ \A m \in LockMode :
         mArrLockCount[i][m] = Cardinality({t \in Trans : held[t][i] = m})
    /\ mFlag[i] = {held[t][i] : t \in grant[i]}
    /\ mGrantLockMode[i] = Decision(mFlag[i])

\* What unlockTable asserts of an item it finds in light mode: no list, and no
\* holder of S, X or SIX.
LightModeClean ==
  \A i \in Items : Light(i) =>
    /\ grant[i] = {} /\ request[i] = <<>>
    /\ \A t \in Trans : held[t][i] \notin HeavyMode

\* No lost wake-up: whenever the mutex of an item is free, the request at the
\* head of its queue is one that cannot be granted yet.
NoLostWakeup ==
  \A i \in Items : Stable(i) /\ request[i] # <<>> =>
    ~ Grantable(Head(request[i]), i)

\* u keeps t waiting: u holds what t's mode excludes, or is queued before t.
Obstructs(u, t) ==
  LET i == op[t].item IN
  /\ mStatus[t] = "BLOCKED" /\ u # t
  /\ \/ ~ Compatible(held[u][i], op[t].mode)
     \/ \E k, l \in DOMAIN request[i] :
          k < l /\ request[i][k] = u /\ request[i][l] = t

\* The wait-for table has an edge for each transaction that keeps another one
\* waiting, though the edges are set only when a request is queued while the
\* holders and the queue go on changing: isCycle sees nothing else.
WaitEdgesComplete ==
  \A t \in Trans :
    mStatus[t] = "BLOCKED" /\ mutex[op[t].item] = NoTrans =>
      \A u \in Trans : Obstructs(u, t) => u \in waitsFor[t]

\* No deadlock stays undetected: transactions that all have passed their
\* deadlock check (and so wait for ever) never keep each other waiting.
NoUndetectedDeadlock ==
  \A D \in (SUBSET Trans) \ {{}} :
    ~ \A t \in D : pc[t] = "checked" /\ \E u \in D : Obstructs(u, t)

\* A node's mask is the set of its linked slots, no slot twice (addLockSlot
\* asserts it), and its mode covers what the slots decide.
SlotsAccountForNode ==
  \A t \in Trans :
    /\ \A k, l \in DOMAIN slots[t] : slots[t][k] = slots[t][l] => k = l
    /\ pc[t] \in {"run", "lock", "lightLock"} => \A i \in Items :
         /\ nodeFlag[t][i] = {m \in LockMode : HasSlot(t, i, m)}
         /\ LET slotMode == Decision(nodeFlag[t][i]) IN
            Conversion(held[t][i], slotMode) = held[t][i]

-----------------------------------------------------------------------------
(* What a step may never do                                                *)

\* A transaction that holds nothing on an item and asks for it is not granted
\* ahead of one that is queued: only the head of the queue gets in.
NoOvertaking ==
  [][\A i \in Items, t \in Trans :
       held[t][i] = "N" /\ held'[t][i] # "N" /\ request[i] # <<>>
         => t = Head(request[i])]_vars

\* smxTrans::resume is only ever called for a suspended transaction, and
\* nothing of a suspended transaction but a conversion changes what it holds.
HeldChangesHands ==
  [][\A t \in Trans : held'[t] # held[t] /\ Waiting(t) /\ Waiting(t)' =>
       /\ mStatus[t] = "BLOCKED" /\ mStatus'[t] = "BEGIN"
       /\ held'[t][op[t].item] = Conversion(held[t][op[t].item], op[t].mode)]_vars

\* The lock manager implements TableLock: a step of any of its paths grants
\* one transaction a mode compatible with what every other one holds at that
\* moment, takes a mode away, or changes nothing a client relies on.
Table == INSTANCE TableLock WITH Trans <- Trans, Items <- Items, held <- held

ImplementsTableLock == Table!Spec

-----------------------------------------------------------------------------
(* Liveness                                                                *)

\* Threads are scheduled and mutexes are not starved of; every client at some
\* time ends its transaction.  No time-out and no session event is counted on.
Fairness ==
  \A t \in Trans :
    /\ SF_vars(EndTrans(t))
    /\ SF_vars(LockInternalLight(t) \/ BeginHeavy(t) \/ GrantHeavy(t) \/ Block(t))
    /\ SF_vars(LightUnlock(t) \/ UnlockHeavy(t))
    /\ SF_vars(WakeUp(t) \/ CheckDeadlock(t) \/ Deadlock(t))
    /\ WF_vars(\E s \in Trans : Scan(t, s))
    /\ WF_vars(LightLock(t) \/ Settle(t) \/ WakeUpHead(t) \/ WakeUpDone(t)
                 \/ ToLightHead(t) \/ ToLightDone(t))
    /\ WF_vars(EndDone(t) \/ \E i \in Items : UnlockNode(t, i))

FairSpec == Spec /\ Fairness

\* Every wait for a lock ends, by a grant or by the deadlock check, if every
\* transaction ends.
WaitEnds == \A t \in Trans : Waiting(t) ~> ~ Waiting(t)
=============================================================================
