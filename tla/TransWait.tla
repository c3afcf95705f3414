------------------------------ MODULE TransWait ------------------------------
(***************************************************************************)
(* The wait of a transaction for another one that has locked a row         *)
(* (smx/smxTransMgr.cpp, waitForTrans; sml/smlLockMgr.cpp, registRecord-   *)
(* LockWait, isCycle, freeAllRecordLock; smx/smxTrans.cpp, suspend, resume *)
(* and end), together with the table waits, which share its wait-for table *)
(* and its way to suspend and resume.                                      *)
(*                                                                         *)
(* A row is locked by having a version whose writer has not ended: there   *)
(* is no lock object and no mutex but that of the writer's smxTrans, which *)
(* is reused by one transaction after the other.  One action is what runs  *)
(* under one hold of that mutex; freeAllRecordLock is cut at each waiter   *)
(* and after each resume, isCycle at each row of the table that it visits. *)
(*                                                                         *)
(* The table-lock manager appears with one table, IS and X, and one action *)
(* per call; LockMgr has its detail.                                       *)
(***************************************************************************)
EXTENDS Naturals, FiniteSets, SequencesExt

CONSTANTS
  Trans,       \* transaction slots (mSlotN)
  Rows,        \* rows
  AskedTable,  \* bound: the modes in which the table is asked for
  Failure,     \* bound: how a wait may fail, other than by a deadlock
  MaxLegacy,   \* bound: legacy transactions of a slot at a time
  TidCycle,    \* bound: TIDs that a slot has before they repeat
  LastTid,     \* bound: the last TID under which a slot begins a transaction
  NoTrans,     \* no transaction
  Nothing      \* neither a row nor a mode is wanted

TableMode == {"IS", "X"}

ASSUME WaitConstAssumption ==
  /\ IsFiniteSet(Trans)
  /\ AskedTable \subseteq TableMode
  /\ Failure \subseteq {"timeout", "event"}
  /\ MaxLegacy \in Nat
  /\ TidCycle \in Nat \ {0, 1}
  /\ LastTid \in Nat
  /\ NoTrans \notin Trans
  /\ Rows \cap TableMode = {}
  /\ Nothing \notin Rows \cup TableMode

VARIABLES
  owner,     \* the slot whose running transaction has locked the row
  \* smxTrans
  mTransID,  \* TID, numbered within the slot
  mStatus,   \* SMX_TX_BEGIN, BLOCKED, COMMIT (or ABORT) and END
  legacy,    \* TIDs of its legacy transactions (mLegacyTransCnt of them)
  \* mWaitForTable and smlTransLockList
  mIndex,    \* path length at which a row reaches a column, 0 for none
  chain,     \* columns linked by mNxtWaitTransItem
  recList,   \* slots linked to wait for it (mFstWaitRecTransItem), in order
  \* the table
  tbl,       \* mode held, or "N"
  queue,     \* slots with a request
  \* the thread of the slot
  pc,        \* where it is
  want,      \* the row or the table mode it tries to get
  target,    \* aWaitTransID: slot and TID it waits for
  path,      \* sPathLen, columns to visit, sExitPathFlag of isCycle
  cur        \* the waiter that freeAllRecordLock has at hand

txVars    == <<owner, mTransID, legacy>>
tableVars == <<tbl, queue>>
vars == <<txVars, mStatus, mIndex, chain, recList, tableVars, pc, want, target,
          path, cur>>

PC == {"idle",        \* no transaction in the slot
       "run",         \* between two operations
       "row",         \* back from a wait for a row, about to look at it again
       "call",        \* has read the row's TID and released the latch
       "suspended1",  \* in the suspend before the deadlock check
       "check",       \* in isCycle
       "suspended2",  \* in the suspend after it
       "giveUp",      \* on the error path
       "ending",      \* has committed or undone, table locks not yet freed
       "free",        \* in freeAllRecordLock, its own mutex locked
       "resumed"}     \* the same, having resumed cur

NoTarget == [slot |-> NoTrans, tid |-> 0]
NoPath   == [len |-> 0, todo |-> {}, more |-> FALSE]

TypeOK ==
  /\ owner \in [Rows -> Trans \cup {NoTrans}]
  /\ mTransID \in [Trans -> 0 .. TidCycle - 1]
  /\ mStatus \in [Trans -> {"BEGIN", "BLOCKED", "COMMIT", "END"}]
  /\ legacy \in [Trans -> SUBSET (0 .. TidCycle - 1)]
  /\ mIndex \in [Trans -> [Trans -> 0 .. Cardinality(Trans)]]
  /\ chain \in [Trans -> SUBSET Trans]
  /\ recList \in [Trans -> Seq(Trans)]
  /\ tbl \in [Trans -> TableMode \cup {"N"}]
  /\ queue \in Seq(Trans)
  /\ pc \in [Trans -> PC]
  /\ want \in [Trans -> Rows \cup TableMode \cup {Nothing}]
  /\ target \in [Trans -> [slot : Trans \cup {NoTrans}, tid : 0 .. TidCycle - 1]]
  /\ path \in [Trans -> [len : 0 .. Cardinality(Trans), todo : SUBSET Trans,
                         more : BOOLEAN]]
  /\ cur \in [Trans -> Trans \cup {NoTrans}]

Init ==
  /\ owner = [r \in Rows |-> NoTrans]
  /\ mTransID = [t \in Trans |-> 0]
  /\ mStatus = [t \in Trans |-> "END"]
  /\ legacy = [t \in Trans |-> {}]
  /\ mIndex = [t \in Trans |-> [u \in Trans |-> 0]]
  /\ chain = [t \in Trans |-> {}]
  /\ recList = [t \in Trans |-> <<>>]
  /\ tbl = [t \in Trans |-> "N"]
  /\ queue = <<>>
  /\ pc = [t \in Trans |-> "idle"]
  /\ want = [t \in Trans |-> Nothing]
  /\ target = [t \in Trans |-> NoTarget]
  /\ path = [t \in Trans |-> NoPath]
  /\ cur = [t \in Trans |-> NoTrans]

-----------------------------------------------------------------------------
(* Parts of the state and of the steps.                                    *)

ForRow(t)    == want[t] \in Rows
ForTable(t)  == want[t] \in TableMode
Suspended(t) == pc[t] \in {"suspended1", "suspended2"}

\* The mutex of an smxTrans is held across a step only by its own end().
TransLocked(h) == pc[h] \in {"free", "resumed"}

\* A waiter for the table runs isCycle and its error path under the item's
\* mutex, which suspend takes again before it returns.
TableLocked == \E u \in Trans : ForTable(u) /\ pc[u] \in {"check", "giveUp"}

GoTo(t, to) == pc' = [pc EXCEPT ![t] = to]

\* Mutant of ClearRow: the columns are unlinked and keep their path lengths.
ClearRowUnlinked(t) ==
  /\ chain' = [chain EXCEPT ![t] = {}]
  /\ UNCHANGED mIndex

\* clearWaitItemColsOfTrans with aDoInit: only columns that are linked.
ClearRow(t) ==
  /\ mIndex' = [mIndex EXCEPT ![t] =
                  [u \in Trans |-> IF u \in chain[t] THEN 0 ELSE @[u]]]
  /\ chain' = [chain EXCEPT ![t] = {}]

\* The wait is over: BEGIN, and back to the row, or to the client.
Back(t, to) ==
  /\ mStatus' = [mStatus EXCEPT ![t] = "BEGIN"]
  /\ want' = [want EXCEPT ![t] = IF to = "row" THEN @ ELSE Nothing]
  /\ target' = [target EXCEPT ![t] = NoTarget]
  /\ path' = [path EXCEPT ![t] = NoPath]
  /\ GoTo(t, to)

-----------------------------------------------------------------------------
(* The client, and recordLockValidation.                                   *)

\* smxTrans::begin
Begin(t) ==
  /\ pc[t] = "idle"
  /\ mTransID[t] <= LastTid
  /\ mStatus' = [mStatus EXCEPT ![t] = "BEGIN"]
  /\ GoTo(t, "run")
  /\ UNCHANGED <<txVars, mIndex, chain, recList, tableVars, want, target, path, cur>>

\* t has the page of the row latched, for the first time or after a wait.
LooksAt(t, r) ==
  \/ pc[t] = "run" /\ owner[r] # t
  \/ pc[t] = "row" /\ want[t] = r

TakeRow(t, r) ==
  /\ LooksAt(t, r)
  /\ owner[r] = NoTrans
  /\ owner' = [owner EXCEPT ![r] = t]
  /\ want' = [want EXCEPT ![t] = Nothing]
  /\ GoTo(t, "run")
  /\ UNCHANGED <<mTransID, legacy, mStatus, mIndex, chain, recList, tableVars,
                 target, path, cur>>

\* The TID is read, the latch of the page released.
MeetRow(t, r) ==
  LET h == owner[r] IN
  /\ LooksAt(t, r)
  /\ h # NoTrans
  /\ want' = [want EXCEPT ![t] = r]
  /\ target' = [target EXCEPT ![t] = [slot |-> h, tid |-> mTransID[h]]]
  /\ GoTo(t, "call")
  /\ UNCHANGED <<txVars, mStatus, mIndex, chain, recList, tableVars, path, cur>>

-----------------------------------------------------------------------------
(* waitForTrans up to the first suspend, under the mutex of the transaction *)
(* to wait for.                                                            *)

\* Mutant of StillThere: the TID is not compared.
StillThereBySlot(g) == mStatus[g.slot] # "END"

StillThere(g) == mTransID[g.slot] = g.tid /\ mStatus[g.slot] # "END"

\* It has ended: the waiter goes back to the row.
TargetGone(t) ==
  /\ pc[t] = "call"
  /\ ~ TransLocked(target[t].slot)
  /\ ~ StillThere(target[t])
  /\ ClearRow(t)
  /\ Back(t, "row")
  /\ UNCHANGED <<txVars, recList, tableVars, cur>>

\* A slot that gave up a wait is linked still, and keeps its place.
Linked(t, h) ==
  IF t \in ToSet(recList[h]) THEN recList[h] ELSE Append(recList[h], t)

\* registRecordLockWait
Register(t) ==
  LET h == target[t].slot IN
  /\ pc[t] = "call"
  /\ ~ TransLocked(h)
  /\ StillThere(target[t])
  /\ mIndex' = [mIndex EXCEPT ![t][h] = 1]
  /\ recList' = [recList EXCEPT ![h] = Linked(t, h)]
  /\ chain' = [chain EXCEPT ![t] = @ \cup {h}]
  /\ mStatus' = [mStatus EXCEPT ![t] = "BLOCKED"]
  /\ GoTo(t, "suspended1")
  /\ UNCHANGED <<txVars, tableVars, want, target, path, cur>>

-----------------------------------------------------------------------------
(* The table: lockTable, and waitForLock up to the first suspend.          *)

TableCompatible(m) ==
  \A u \in Trans : tbl[u] # "N" => m = "IS" /\ tbl[u] = "IS"

GrantTable(t, m) ==
  /\ pc[t] = "run" /\ ~ TableLocked
  /\ tbl[t] = "N"
  /\ queue = <<>> /\ TableCompatible(m)
  /\ tbl' = [tbl EXCEPT ![t] = m]
  /\ UNCHANGED <<txVars, mStatus, mIndex, chain, recList, queue, pc, want, target,
                 path, cur>>

\* registTblLockWaitListByReq and ByGrant
WaitTable(t, m) ==
  LET ahead == ToSet(queue) \cup {u \in Trans : tbl[u] # "N"} IN
  /\ pc[t] = "run" /\ ~ TableLocked
  /\ tbl[t] = "N"
  /\ ~ (queue = <<>> /\ TableCompatible(m))
  /\ want' = [want EXCEPT ![t] = m]
  /\ queue' = Append(queue, t)
  /\ mIndex' = [mIndex EXCEPT ![t] =
                  [u \in Trans |-> IF u \in ahead THEN 1 ELSE @[u]]]
  /\ chain' = [chain EXCEPT ![t] = @ \cup ahead]
  /\ mStatus' = [mStatus EXCEPT ![t] = "BLOCKED"]
  /\ GoTo(t, "suspended1")
  /\ UNCHANGED <<txVars, recList, tbl, target, path, cur>>

\* The positions of the queue q that are granted beside the modes held: those
\* up to the first that does not fit the holders or a request before it.
GrantedHeads(q, held) ==
  {k \in DOMAIN q : \A i \in 1 .. k :
     /\ \A u \in Trans : held[u] # "N" => held[u] = "IS" /\ want[q[i]] = "IS"
     /\ \A j \in 1 .. i - 1 : want[q[j]] = "IS" /\ want[q[i]] = "IS"}

\* Mutant of QueueWithout: a request that gives up stays in the queue.
QueueWithoutNone(t) == queue

QueueWithout(t) ==
  IF t \in ToSet(queue)
  THEN RemoveAt(queue, CHOOSE k \in DOMAIN queue : queue[k] = t)
  ELSE queue

\* unlockTable with the wake-up of the queue: t loses its mode, or its request,
\* and gets a new status.  "row" is what is left of its wait-for row.
LeaveTable(t, status, row) ==
  LET q == QueueWithout(t)
      granted == GrantedHeads(q, [tbl EXCEPT ![t] = "N"])
      woken == {q[k] : k \in granted} IN
  /\ queue' = SubSeq(q, Cardinality(granted) + 1, Len(q))
  /\ tbl' = [u \in Trans |-> IF u = t THEN "N"
                             ELSE IF u \in woken THEN want[u] ELSE tbl[u]]
  /\ mStatus' = [u \in Trans |-> IF u = t THEN status
                                 ELSE IF u \in woken THEN "BEGIN" ELSE mStatus[u]]
  /\ mIndex' = [u \in Trans |->
                  IF u = t THEN row
                  ELSE [v \in Trans |->
                          IF \/ u \in woken /\ v \in chain[u]
                             \/ u \in ToSet(q) /\ v = t
                          THEN 0 ELSE mIndex[u][v]]]

-----------------------------------------------------------------------------
(* suspend, the deadlock check and the ways out, of both waits.            *)

\* Resumed: waitForTrans goes back to the row, waitForLock to the client, both
\* without the mutex of any other transaction.
Woken(t) ==
  /\ Suspended(t)
  /\ ForTable(t) => ~ TableLocked
  /\ mStatus[t] = "BEGIN"
  /\ ClearRow(t)
  /\ Back(t, IF ForRow(t) THEN "row" ELSE "run")
  /\ UNCHANGED <<txVars, recList, tableVars, cur>>

\* LOCK_TIMEOUT is over: on to isCycle.
StartCheck(t) ==
  /\ pc[t] = "suspended1"
  /\ ForTable(t) => ~ TableLocked
  /\ mStatus[t] = "BLOCKED"
  /\ path' = [path EXCEPT ![t] = [len |-> 1, todo |-> chain[t], more |-> FALSE]]
  /\ GoTo(t, "check")
  /\ UNCHANGED <<txVars, mStatus, mIndex, chain, recList, tableVars, want, target, cur>>

\* Mutant of Reached: the way back to the requester itself is not a new column.
ReachedOthers(t, i) == {j \in chain[i] \ (chain[t] \cup {t}) : mIndex[i][j] = 1}

\* The columns that isCycle enters from row i.
Reached(t, i) == {j \in chain[i] \ chain[t] : mIndex[i][j] = 1}

\* One column i of the list; t found itself, or goes on.
VisitRow(t, i) ==
  LET new == IF mIndex[t][i] = path[t].len THEN Reached(t, i) ELSE {} IN
  /\ pc[t] = "check"
  /\ i \in path[t].todo
  /\ mIndex' = [mIndex EXCEPT ![t] =
                  [u \in Trans |-> IF u \in new THEN path[t].len + 1 ELSE @[u]]]
  /\ chain' = [chain EXCEPT ![t] = @ \cup new]
  /\ IF t \in new
     THEN path' = [path EXCEPT ![t] = NoPath] /\ GoTo(t, "giveUp")
     ELSE /\ path' = [path EXCEPT ![t].todo = @ \ {i}, ![t].more = @ \/ new # {}]
          /\ UNCHANGED pc
  /\ UNCHANGED <<txVars, mStatus, recList, tableVars, want, target, cur>>

\* The list has been visited: once more from its new head, or no cycle.
EndPass(t) ==
  /\ pc[t] = "check"
  /\ path[t].todo = {}
  /\ IF path[t].more /\ path[t].len + 1 < Cardinality(Trans)
     THEN /\ path' = [path EXCEPT ![t] = [len |-> @.len + 1, todo |-> chain[t],
                                          more |-> FALSE]]
          /\ UNCHANGED pc
     ELSE path' = [path EXCEPT ![t] = NoPath] /\ GoTo(t, "suspended2")
  /\ UNCHANGED <<txVars, mStatus, mIndex, chain, recList, tableVars, want, target, cur>>

TimeOut(t) ==
  /\ "timeout" \in Failure
  /\ pc[t] = "suspended2"
  /\ ForTable(t) => ~ TableLocked
  /\ mStatus[t] = "BLOCKED"
  /\ GoTo(t, "giveUp")
  /\ UNCHANGED <<txVars, mStatus, mIndex, chain, recList, tableVars, want, target,
                 path, cur>>

\* Query time-out or closed session, seen before the wait,
EventBeforeWait(t) ==
  /\ "event" \in Failure
  /\ pc[t] = "call"
  /\ Back(t, "run")
  /\ UNCHANGED <<txVars, mIndex, chain, recList, tableVars, cur>>

\* or in a suspend, where it wins over a resume.
SessionEvent(t) ==
  /\ "event" \in Failure
  /\ Suspended(t)
  /\ ForTable(t) => ~ TableLocked
  /\ GoTo(t, "giveUp")
  /\ UNCHANGED <<txVars, mStatus, mIndex, chain, recList, tableVars, want, target,
                 path, cur>>

\* The error path of waitForTrans, under the mutex of the transaction waited
\* for, whoever runs in its slot by now (BUG-21402).
GiveUpRow(t) ==
  /\ pc[t] = "giveUp" /\ ForRow(t)
  /\ ~ TransLocked(target[t].slot)
  /\ ClearRow(t)
  /\ Back(t, "run")
  /\ UNCHANGED <<txVars, recList, tableVars, cur>>

\* That of waitForLock and lockTableInternal.
GiveUpTable(t) ==
  /\ pc[t] = "giveUp" /\ ForTable(t)
  /\ LeaveTable(t, "BEGIN", [u \in Trans |-> IF u \in chain[t] THEN 0 ELSE mIndex[t][u]])
  /\ chain' = [chain EXCEPT ![t] = {}]
  /\ want' = [want EXCEPT ![t] = Nothing]
  /\ path' = [path EXCEPT ![t] = NoPath]
  /\ GoTo(t, "run")
  /\ UNCHANGED <<txVars, recList, target, cur>>

-----------------------------------------------------------------------------
(* The end of a transaction                                                *)

\* commit or abort up to end(): the versions of t are no longer those of a
\* running transaction.  Those of a legacy transaction keep its TID until it is
\* closed, but getTransCommitSCN finds its commit SCN, and nobody waits for it.
\* A commit across which a cursor stays open leaves a
\* legacy transaction behind (mLegacyTransCnt++).
Commit(t, open) ==
  /\ pc[t] = "run"
  /\ open => Cardinality(legacy[t]) < MaxLegacy
  /\ owner' = [r \in Rows |-> IF owner[r] = t THEN NoTrans ELSE owner[r]]
  /\ legacy' = [legacy EXCEPT ![t] = IF open THEN @ \cup {mTransID[t]} ELSE @]
  /\ mStatus' = [mStatus EXCEPT ![t] = "COMMIT"]
  /\ GoTo(t, "ending")
  /\ UNCHANGED <<mTransID, mIndex, chain, recList, tableVars, want, target, path, cur>>

\* freeAllItemLock, or with legacy transactions freeAllItemLockExceptIS; then
\* t locks its own mutex.
FreeItems(t) ==
  /\ pc[t] = "ending"
  /\ ~ TableLocked
  /\ IF tbl[t] = "N" \/ (tbl[t] = "IS" /\ legacy[t] # {})
     THEN UNCHANGED <<tableVars, mStatus, mIndex>>
     ELSE LeaveTable(t, "COMMIT", mIndex[t])
  /\ GoTo(t, "free")
  /\ UNCHANGED <<txVars, chain, recList, want, target, path, cur>>

\* Mutant of FreeNext: the waiter is unlinked and not resumed.
FreeNextSilent(t) ==
  LET w == Head(recList[t]) IN
  /\ pc[t] = "free"
  /\ recList[t] # <<>>
  /\ recList' = [recList EXCEPT ![t] = Tail(@)]
  /\ mIndex' = [mIndex EXCEPT ![w][t] = 0]
  /\ UNCHANGED <<txVars, mStatus, chain, tableVars, pc, want, target, path, cur>>

\* Mutant of FreeNext: every slot linked is resumed, waiting for t or not.
FreeNextLinked(t) ==
  LET w == Head(recList[t]) IN
  /\ pc[t] = "free"
  /\ recList[t] # <<>>
  /\ recList' = [recList EXCEPT ![t] = Tail(@)]
  /\ mStatus' = [mStatus EXCEPT ![w] = IF @ = "BLOCKED" THEN "BEGIN" ELSE @]
  /\ cur' = [cur EXCEPT ![t] = w]
  /\ GoTo(t, "resumed")
  /\ UNCHANGED <<txVars, chain, mIndex, tableVars, want, target, path>>

\* freeAllRecordLock: the first of the list is unlinked and, if its row has
\* the column, resumed.
FreeNext(t) ==
  LET w == Head(recList[t]) IN
  /\ pc[t] = "free"
  /\ recList[t] # <<>>
  /\ recList' = [recList EXCEPT ![t] = Tail(@)]
  /\ IF mIndex[w][t] = 1
     THEN /\ mStatus' = [mStatus EXCEPT ![w] = IF @ = "BLOCKED" THEN "BEGIN" ELSE @]
          /\ cur' = [cur EXCEPT ![t] = w]
          /\ GoTo(t, "resumed")
          /\ UNCHANGED mIndex
     ELSE /\ mIndex' = [mIndex EXCEPT ![w][t] = 0]
          /\ UNCHANGED <<mStatus, cur, pc>>
  /\ UNCHANGED <<txVars, chain, tableVars, want, target, path>>

\* The column is cleared after the resume.
FreeColumn(t) ==
  /\ pc[t] = "resumed"
  /\ mIndex' = [mIndex EXCEPT ![cur[t]][t] = 0]
  /\ cur' = [cur EXCEPT ![t] = NoTrans]
  /\ GoTo(t, "free")
  /\ UNCHANGED <<txVars, mStatus, chain, recList, tableVars, want, target, path>>

\* The rest of end(): status, next TID, init().  The "continue" that is to skip
\* the TID of a legacy transaction ends the do-while instead.
EndDone(t) ==
  /\ pc[t] = "free"
  /\ recList[t] = <<>>
  /\ mStatus' = [mStatus EXCEPT ![t] = IF legacy[t] = {} THEN "END" ELSE @]
  /\ mTransID' = [mTransID EXCEPT ![t] = (@ + 1) % TidCycle]
  /\ GoTo(t, "idle")
  /\ UNCHANGED <<owner, legacy, mIndex, chain, recList, tableVars, want, target,
                 path, cur>>

\* The last cursor of a legacy transaction is closed (removeLegacyTrans).
CloseLegacy(t, tid) ==
  /\ pc[t] = "run"
  /\ tid \in legacy[t]
  /\ legacy' = [legacy EXCEPT ![t] = @ \ {tid}]
  /\ UNCHANGED <<owner, mTransID, mStatus, mIndex, chain, recList, tableVars, pc,
                 want, target, path, cur>>

-----------------------------------------------------------------------------

Step(t) ==
  \/ TargetGone(t) \/ Register(t)
  \/ Woken(t) \/ StartCheck(t) \/ EndPass(t)
  \/ \E i \in Trans : VisitRow(t, i)
  \/ TimeOut(t) \/ EventBeforeWait(t) \/ SessionEvent(t)
  \/ GiveUpRow(t) \/ GiveUpTable(t)
  \/ FreeItems(t) \/ FreeNext(t) \/ FreeColumn(t) \/ EndDone(t)

Call(t) ==
  \/ Begin(t)
  \/ \E r \in Rows : TakeRow(t, r) \/ MeetRow(t, r)
  \/ \E m \in AskedTable : GrantTable(t, m) \/ WaitTable(t, m)
  \/ \E open \in BOOLEAN : Commit(t, open)
  \/ \E tid \in legacy[t] : CloseLegacy(t, tid)

Next == \E t \in Trans : Call(t) \/ Step(t)

Spec == Init /\ [][Next]_vars

-----------------------------------------------------------------------------
(* Safety                                                                  *)

\* No lost resume: as long as a waiter for a row sleeps, the transaction it
\* read in the row is still the one of that slot, has not ended, and finds the
\* waiter in its list and its column set when it gets to freeAllRecordLock.
\* Were the holder's mutex not taken to register, it could have been there
\* before; the list is kept across waits that were given up.
ResumeIsComing ==
  \A t \in Trans : ForRow(t) /\ mStatus[t] = "BLOCKED" /\ Suspended(t) =>
    LET h == target[t].slot IN
    /\ mTransID[h] = target[t].tid /\ mStatus[h] # "END"
    /\ mIndex[t][h] = 1
    /\ t \in ToSet(recList[h])

\* registRecordLockWait asserts that the row of the waiter is empty, and so
\* does registTblLockWaitListByReq: whoever ends a wait, and in whatever way,
\* leaves nothing in the table, though other transactions write to that row.
RowCleanOutsideWait ==
  \A t \in Trans :
    ~ Suspended(t) /\ pc[t] \notin {"check", "giveUp"} =>
      chain[t] = {} /\ \A u \in Trans : mIndex[t][u] = 0

\* u keeps t waiting: it is the transaction t waits for, or it holds the table
\* or is before t in its queue in a way that excludes t.
Obstructs(u, t) ==
  \/ ForRow(t) /\ u = target[t].slot
  \/ /\ ForTable(t) /\ u # t
     /\ \/ tbl[u] # "N" /\ ~ (tbl[u] = "IS" /\ want[t] = "IS")
        \/ \E k, l \in DOMAIN queue : k < l /\ queue[k] = u /\ queue[l] = t

\* No deadlock stays undetected, though isCycle runs under no common mutex, each
\* over rows that others change, and skips the columns linked in its own row:
\* transactions that have all passed it never keep each other waiting.  Where legacy
\* transactions keep table locks they may: freeAllRecordLock is said to clear the state
\* of a wait and to resume (smlLockMgr.cpp:2136), but does it the other way round.
NoUndetectedDeadlock ==
  \A D \in (SUBSET Trans) \ {{}} :
    ~ \A t \in D : /\ pc[t] = "suspended2" /\ mStatus[t] = "BLOCKED"
                   /\ \E u \in D : Obstructs(u, t)

-----------------------------------------------------------------------------
(* What a step may never do                                                *)

\* A suspended transaction is resumed for what it waits for, and for nothing
\* else: the transaction that it waits for has given up its rows, or the table
\* is its own.  A link left behind by an earlier wait must not wake it, but does, where
\* legacy transactions keep table locks: see README, findings.
ResumedWithReason ==
  [][\A t \in Trans :
       Suspended(t) /\ mStatus[t] = "BLOCKED" /\ mStatus'[t] = "BEGIN" /\ Suspended(t)' =>
         IF ForRow(t)
         THEN /\ pc[target[t].slot] = "free"
              /\ \A r \in Rows : owner[r] # target[t].slot
         ELSE tbl'[t] = want[t]]_vars

\* freeAllRecordLock never resumes a transaction that is not blocked, what
\* smxTrans::resume asserts since BUG-43595.
ResumedIsBlocked ==
  [][\A t, w \in Trans :
       cur[t] # w /\ cur'[t] = w /\ w # NoTrans => mStatus[w] = "BLOCKED"]_vars

-----------------------------------------------------------------------------
(* Liveness                                                                *)

\* What a thread does of itself once it has been called: the clients' choices
\* and the failures are not among it, the look at the row after a wait is.
Thread(t) ==
  \/ pc[t] = "row" /\ \E r \in Rows : TakeRow(t, r) \/ MeetRow(t, r)
  \/ TargetGone(t) \/ Register(t)
  \/ Woken(t) \/ StartCheck(t) \/ EndPass(t)
  \/ \E i \in Trans : VisitRow(t, i)
  \/ GiveUpRow(t) \/ GiveUpTable(t)
  \/ FreeItems(t) \/ FreeNext(t) \/ FreeColumn(t) \/ EndDone(t)

\* Threads run, mutexes let everyone in, LOCK_TIMEOUT passes and every client
\* ends its transaction.  No time-out after the deadlock check is counted on.
Fairness ==
  \A t \in Trans : /\ SF_vars(Thread(t))
                   /\ SF_vars(\E open \in BOOLEAN : Commit(t, open))

FairSpec == Spec /\ Fairness

\* Every wait for a row or for the table ends, by a resume or by the deadlock
\* check, if every transaction ends.
WaitEnds == \A t \in Trans : Suspended(t) ~> ~ Suspended(t)
=============================================================================
