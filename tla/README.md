# Altibase storage engine: TLA+ models and proofs

Altibase is a relational database server with memory-resident and disk tables
under one transaction manager. This directory specifies the parts of its
storage manager (`src/src/sm`) whose correctness depends on how threads
interleave, and on what a crash leaves:

* the **table-lock manager** (`sml/smlLockMgr.cpp`) and the wait for a table lock;
* the **waits for rows** (`smx/smxTransMgr.cpp`, `smx/smxTrans.cpp`), which share its
  wait-for table;
* **SCNs and views**: which commits a statement sees, and the minimum of all views
  (`smx/smxTrans.cpp`, `smm/smmDatabase.cpp`, `smx/smxTransMgr.cpp`);
* the **versions of memory rows** and how a reader judges them without latches
  (`smc/smcRecord.cpp`, `include/smnManager.h`);
* the **agers**, which free versions nobody can see (`sma`);
* **log, checkpoint and restart recovery** of the memory tablespaces (`smr`, `smm`).

## 1. Inventory

| layer | part | state | operations | interacts with | hard because | correct when |
|---|---|---|---|---|---|---|
| sml | table-lock manager | per item: flag, group mode, counts, grant and request lists, mutex; per transaction: lock nodes, lock slots, list mutex; wait-for table | lockTable, unlockTable, partialItemUnlock, freeAllItemLock, isCycle | called by smi/smc/smx; suspends and resumes smx transactions | two lock protocols (light, heavy) that change into each other under different mutexes; wake-ups; time-outs; conversions | compatible holders, no lost wake-up, no undetected deadlock, a lock reported is a lock held |
| smx | waits | mStatus, condition variable, rows of the wait-for table | waitForLock, waitForTrans, suspend, resume, freeAllRecordLock | wait-for table of sml | a time-out racing a resume, a slot reused while someone registers to wait for it | every waiter of an ended transaction is resumed, nobody else is |
| smx | life cycle | transaction table, status, TID, legacy transactions | begin, commit, abort, end, XA prepare, fetch across commit | log (smr), locks, SCNs, agers | TID and slot reuse, legacy transactions outliving their TID | commit order equals SCN order, undone or durable |
| smx, smm | SCNs and views | system SCN, per transaction view SCN and minimum | allocViewSCN, commit SCN, getMinMemViewSCNofAll, smxMinSCNBuild | agers, record visibility | scans of all transactions while they begin and end | the minimum never exceeds a view in use |
| smx | savepoints, OID lists | savepoint list, OID list per transaction | set, partial rollback, hand-over to agers | sml (slots are unlocked back to a sequence), sma | partial undo | the state of a savepoint is restored, locks included |
| sma | agers | queue of ended transactions' OID lists | index key delete, version free | minimum view SCN | a reader with an old view | nothing visible is freed, everything invisible finally is |
| smc, smn, smp, smm | memory tables | rows, versions, pages, indexes | insert, update, delete, read | all of the above | version chains read without locks | snapshot reads |
| svc, svm, svp, svr | volatile tables | same, with an in-memory log | same | same | same | same |
| sdb, sds | buffer pool | control blocks, fix counts, LRU, flush and checkpoint lists | fix, unfix, flush, replace | sdd, smr | flushers racing fixers and checkpoint | a dirty page is never lost, log before data |
| sdc, sdn, sdp, sdr, sdt | disk tables | pages, CTS, undo segments, mini-transactions | row and index operations | sdb, smr | delayed stamping, split under latches | snapshot reads, structure of trees |
| smr | log, checkpoint, recovery | log files, LSNs, log anchor, active transaction list | write, sync, checkpoint, redo, undo, backup | all | a crash between any two steps | committed work survives, the rest is undone |
| sct, sdd | tablespaces, files | state of each, files | create, drop, online, offline | sml items, smr | DDL racing checkpoint | one state at a time |
| id | latches, session events | latch words, event flags | lock, try, unlock | all | atomics | mutual exclusion |
| mm | sessions, plan cache | sessions, shared transactions, plans | connect, execute, end | smi, qp | sharing across sessions | reference counts |
| qp, mt | query processor | none shared | parse, optimize, execute | smi | - | sequential |
| rp | replication | sender and receiver state, acknowledged SN | send, apply, ack, restart | smr logs | network loss, restart | converged tables |
| dk, sd | distributed transactions | global coordinators, remote transactions | prepare, commit, notify | smx XA | in-doubt branches | one outcome |
| cm, st, ul, pd, core | protocol, types, clients, ports | - | - | - | - | - |

`sml/smlLockMgrMutex.cpp` and `sml/smlLockMgrSpin.cpp` are former variants that
the build does not compile (`sm/lib/sm_objs.mk` 273-274).

How the modelled parts meet: a transaction locks tables (LockMgr) and waits for the
writers of rows (TransWait), takes views and commit SCNs (ViewSCN), makes and judges
versions (RowVisibility), hands the obsolete ones to the agers, which ask for the
minimum of all views (MemAger over ViewSCN), and logs what it changes for the
restart (Recovery). The hazards are listed with their lines in `PROJECT.json`.

## 2. Plan

1. **Table locks** (checked and proved): `LockModes`, `TableLock` (abstract),
   `LockMgr`, `LockMgrHistory`.
2. **Waits for rows** (checked and proved): `TransWait`. To come: the distributed deadlock check.
3. **SCNs and views** (checked and proved): `ViewSCN`; **row versions** (checked and
   proved): `RowVisibility`, which extends it.
4. **Agers** (checked and proved): `MemAger`, which extends `ViewSCN`, and `Reclaim` (abstract).
5. **Log, checkpoint, restart** (checked and proved): `Recovery` and `DurableStore` (abstract).
6. To come: **savepoints and partial rollback** over lock slots and OID lists;
   **buffer control blocks and flushers**; disk recovery; **replication positions**;
   **two-phase commit** of dk and sd; **latches**.

To prove next: what of `TransWait` and `Recovery` remains where the windows of section 5 are hit,
which the theorems leave out. None of these modules has a recursive operator.

## 3. Modules

| module | what it is |
|---|---|
| `LockModes` | the lock modes and the three constant tables of smlLockMgr.cpp 148-201 |
| `TableLock` | abstract specification: what each transaction holds, Grant, Release |
| `LockMgr` | the lock manager: state, one action per critical section, properties, fairness |
| `LockMgrHistory` | `LockMgr` with a history of what lockTable reported to its client, and the invariant for it, `HInv` |
| `LockMgrInv` | the inductive invariant: `IInv`, `WaitInv`, `DeadlockInv` |
| `QueueLemmas` | lemmas on queues without duplicates, cardinalities, and induction up to a number |
| `LockMgr_proofs` | the algebra of the mode tables; `IInv`: one lemma per action, `Invariance`; the properties that follow from it and the refinement of `TableLock` |
| `LockMgrWaits` | `WaitInv` and `DeadlockInv`: wake-ups, edges, slots, queue order, deadlock detection; `HInv`: what was reported as locked is held |
| `TransWait` | waits for rows, their wake-up at the end of a transaction, isCycle in steps, legacy transactions, beside the waits for one table |
| `TransWaitInv` | the inductive invariant: `WInv`, `DeadlockInv` |
| `TransWait_proofs` | both are inductive; resumes, their reasons, deadlock detection |
| `ViewSCN` | SCNs, views, the commit and end of a transaction, the walk over all slots |
| `ViewSCN_proofs` | its inductive invariant and what follows from it |
| `RowVisibility` | versions, their writers, stamping, rollback, and the reader's steps, on `ViewSCN` |
| `RowVisibility_proofs` | its inductive invariant, the verdicts of readers, no lost update |
| `Reclaim` | abstract specification of garbage collection: put, reach, let go, cut, release |
| `MemAger` | the ager's list, logical ager and delete thread, on `ViewSCN` |
| `MemAger_proofs` | its inductive invariant, safety properties and the refinement of `Reclaim` |
| `DurableStore` | abstract specification of a store with acknowledged commits and crashes |
| `Recovery` | the steps of a writer, log, dirty pages, fuzzy checkpoint, anchor, crash, redo, undo |
| `RecoveryInv` | the inductive invariant: `RecInv` |
| `Recovery_proofs` | `RecInv`: the redo as a recursion, one lemma per step; the restart, both images, the refinement of `DurableStore` |
| `MC...` | symmetry and constants for TLC |

### How LockMgr corresponds to the code

State. `mFlag`, `mGrantLockMode`, `mArrLockCount` are the fields of
`smlLockItem`; a bit mask is the set of its modes, `SML_FLAG_LIGHT_MODE` is
`{"LIGHT"}`. `grant` and `request` are the two lists of lock nodes (the order
of the grant list is never used). `held[t][i]` is mLockMode of the node of `i` in
the lock node list of `t` ("N": no node), `nodeFlag` its mFlag, `slots` the lock
slot list. `waitsFor[t]` are the columns of row `t` of mWaitForTable with mIndex
1, `chain[t]` the columns linked by mNxtWaitTransItem. `mStatus` is that of
smxTrans. `pc`, `op`, `cvs`, `scan`, `after` are the local variables of the
thread that runs the transaction: where it is, item and mode of the call, whether
its request node has an mCvsLockNode, which slots the loop at 2773 has yet to
visit, where the unlock returns to.

Steps. One action is one critical section. The item mutex is an explicit variable;
it is cut at each transaction visited by the three loops that take other
transactions' list mutexes (`Scan`, `WakeUpHead`, `ToLightHead`) and after the
release, before the choice of light mode or wake-up (`Settle`). A section
under the list mutex has two actions, the one that reads the light flag and the
one that acts on it (`LockTable`/`LightLock`, `UnlockNode` or
`UnlockSlot`/`LightUnlock`), so that other threads' steps come between; `Scan` of
a transaction waits for its list mutex.

| code | actions |
|---|---|
| lockTable | `LockTable`, `LightLock`; the early return is the guard `NeedsLock` (an action, `EarlyReturn`, in LockMgrHistory) |
| lockTableInternal | `LockInternalLight`, `BeginHeavy`, `Scan`, `GrantHeavy`, `Block`, `NoWait`, `WakeUp` |
| waitForLock, suspend | `CheckDeadlock`, `Deadlock`, `TimeOut`, `SessionEvent`, then `LeaveQueue` |
| partialItemUnlock, freeAllItemLockExceptIS | `UnlockSlot` |
| smxTrans::end, freeAllItemLock | `EndTrans`, `UnlockNode`, `EndDone` |
| unlockTable | `LightUnlock` |
| unlockTableInternal | `LightUnlock`, `UnlockHeavy`, `Settle` |
| toLightMode | `UnlinkGrants`, `ToLightHead`, `ToLightDone` |
| wakeupRequestLockNodeInLockItem | `WakeUpHead`, `WakeUpDone` |
| isCycle | `PathFrom`, `isCycle` |

Abstracted: the order of the scan and of the unlocks at the end (free, so that
the properties do not depend on it); the transaction that reuses a slot (its slot
starts with empty lists); mIsExplicitLock (whether a slot of IS is released at a
statement's end is the client's choice); performance views, statistics, node
caches; the property that disables locking. isCycle is one step, although for
waits on different items it runs under different mutexes: `TransWait` cuts it.
Not modelled: the distributed deadlock check (detectDistDeadlock,
revertWaitItemColsOfTrans), lockTableByPreparedLog, and the release of IX at the
end of a statement on a temporary tablespace (partialItemUnlock 794-805).

### How TransWait corresponds to the code

A row has no lock object: who wants it finds in its version the TID of a writer
that has not ended, and waits for that transaction, under the mutex of the
smxTrans, which is reused with another TID. State: `owner` is that writer's slot;
`mTransID`, `mStatus` and `legacy` (the TIDs of the mLegacyTransCnt legacy
transactions) belong to smxTrans; `mIndex[t][u]`, `chain[t]` (columns linked by
mNxtWaitTransItem) and `recList[h]` (slots linked by mNxtWaitRecTransItem, in
order) are mWaitForTable and smlTransLockList; `tbl` and `queue` are one table with
IS and X, registered in the same rows. `want`, `target`, `path`, `cur`, `pc` are
local variables of the thread of the slot.

| code | actions |
|---|---|
| recordLockValidation (smcRecord.cpp) | `TakeRow`, `MeetRow`, `EventBeforeWait` |
| waitForTrans | `TargetGone`, `Register`, `Woken`, `GiveUpRow` |
| registRecordLockWait | `Register` |
| suspend, resume | `Woken`, `TimeOut`, `SessionEvent`; the resume is in `FreeNext` and `LeaveTable` |
| isCycle | `StartCheck`, `VisitRow`, `EndPass` |
| lockTable, waitForLock, unlockTable on the table | `GrantTable`, `WaitTable`, `GiveUpTable`, `LeaveTable` |
| commit or abort up to end | `Commit` |
| smxTrans::end, freeAllRecordLock | `FreeItems`, `FreeNext`, `FreeColumn`, `EndDone` |
| begin, removeLegacyTrans | `Begin`, `CloseLegacy` |

One action is what runs under one hold of the mutex of the transaction waited for;
freeAllRecordLock, under the mutex of the one that ends, is cut at each waiter and
between the resume and the clearing of the column, since the waiter needs neither
mutex to go on. isCycle, which takes no mutex for row waits, is cut at each row of the
table it visits; a victim may be chosen on a path that no longer exists, as in the code.

Abstracted: versions of a row (a row whose writer has committed is free for the next
one; that it is then reported as changed and retried is not modelled); all rows of a
transaction are released at once when it commits; the table has no conversions and
its calls are one step under the item's mutex (`LockMgr` has them in detail);
a legacy transaction is closed while a transaction runs in its slot, and the release
of IS at a statement's end is left out. Not modelled: isWaitForTransCase
(transactions of one replication receiver do not wait for each other), disk rows
(they use the same waitForTrans), savepoints.

### How ViewSCN corresponds to the code

State. `mStatus`, `mCommitSCN`, `mMinMemViewSCN`, `mLSLockFlag`, `mTransID` are those of
smxTrans; `lst` is smmDatabase::mLstSystemSCN; `view` holds mSCN of the memory
statements of a slot, `legacy` those of them whose transaction has committed. `scn` and `pc` are
local to the slot's thread, `scan` to an ager. One action is one access to shared memory
(the code orders them by memory barriers).

| code | actions |
|---|---|
| allocViewSCN, trySetupMinMemViewSCN | `LockView`, `GetView`, `SetView` |
| smiStatement::end, tryUptMinViewSCN | `EndStmt` |
| smmDatabase::getCommitSCN, setTransCommitSCN | `PreCommit`, `TakeSCN`, `SetCommitSCN`, `SetCommitStatus` |
| addOIDList2AgingList | `HoldView`, `Abort` |
| commit of a transaction that has changed nothing | `CommitEmpty` |
| begin, end, init | `Begin`, `EndStatus`, `NextTID`, `InitSlot` |
| getMinMemViewSCNofAll | `StartScan`, `PassFlag`, `ReadMin`, `TakeMin`, `EndScan` |

### How RowVisibility corresponds to the code

`create` and `limit` are mCreateSCN and mLimitSCN of a version: an SCN, an infinite SCN with
its writer's TID, a row lock, or the mark of a free row. `op` holds the local variables
of a writer or a reader. `creator`, `limiter`, `commitOf` are history, for the properties
only: `InSnapshot` says from them what the reader ought to find.

| code | actions |
|---|---|
| insertVersion, updateVersionInternal, removeVersion | `InsertVersion`; `LockVersion`, `LimitVersion`, `SetAllocated`; `RemoveVersion` |
| recordLockValidation, validateUpdateTargetRow | the guard `MayChange` (a wait or an error otherwise: TransWait) |
| undo of these | `StartUndo`, `UndoNew`, `UndoLimit`, `UndoRemove` |
| processOIDListAtCommit | `StampCreate`, `StampLimit` |
| checkSCN, getTransCommitSCN | `ReadCreate`, `ReadLimit`, `ReadStatus`, `ReadCommitSCN`, `Recheck`, `ReadTID`, `Verdict`, `EndCheck` |

### How MemAger corresponds to the code

`oidList` is the list of one ager from mTailDeleteThread to mHead, `passed` where
mTailLogicalAger stands in it; an item has mSCN, mFinished, mErasable, mKeyFreeSCN.
`slot`, `key` and `held` are what is in memory and in the index, and the pointers
that searches have got from the index; `made` and `gone` say who sees a version. Here the rows
are decided when the commit takes its SCN; RowVisibility shows what readers make of the
steps in between. An index has one key per version, its search and its deletion are one
step each.

| code | actions |
|---|---|
| addOIDList2AgingList, addList, setOIDListFinished | `AddList`, `SetFinished` |
| smaLogicalAger::run, addDummyOID, deleteIndex | `AddDummy`, `AgerStart`, `AgerScan`, `AgerScanned`, `AgerTake`, `DeleteIndex`, `SetErasable`, `AgerStop` |
| smaDeleteThread::realDelete, isAgingTarget | `DeleterHead`, `DeleterStart`, `DeleterScan`, `DeleterScanned`, `FreeItem`, `DeleterCommit`, `IncreaseSystemSCN` |

`Reclaimed` has an assumption, `<>[]AtRest`: readers that never commit, one of them with
an open statement at each walk, keep the minimum at the SCN of the deleted keys for
ever, since only an idle moment or a commit moves the system SCN.

### How Recovery corresponds to the code

An LSN is an index of `log`; `synced` is how much of it is on disk. `dirty` and `listed` are
m_dirty and the list of smmDirtyPageMgr, `stat` is m_dirtyStat of the pages in the list
of smrDirtyPageList (FLUSH and FLUSHDUP are both "flush": what follows is the same).
`img` are the two images of a memory tablespace on disk, `file` the one being written as the
operating system has it, `anchor` the log anchor (current image, begin checkpoint LSN). A
record is a row with a value; versions and keys are left out, since redo and undo work on
pages, and rollback restores values. `owner` stands for the exclusion of writers.

A writer's change is cut where another thread reads what it writes; `wr` says how far it is. The
record is in the log when lockAndWriteLog releases the log's mutex; setLstUndoNxtLSN puts
the first LSN into the slot afterwards (smrLogMgr.cpp:3385). insDirtyPage tests
m_dirty, sets it, and links the page under the mutex of a list (smmDirtyPageMgr.cpp:209-216); who finds
the flag set does nothing. Nothing keeps a checkpoint out of the two windows between these steps, and there
it goes wrong (section 5). `missed` notes that it has happened: `MissesFirst`, the
scan reads the slot of a transaction that has logged before the redo LSN and not set its LSN;
`MissesPage`, the list is moved while a page has its flag and is in no list. It is there for the properties only and
no action depends on it.

| code | actions |
|---|---|
| a change, up to lockAndWriteLog; setLstUndoNxtLSN; change of the row | `Update`, `SetLstUndoNxtLSN`, `ChangeRow` |
| insDirtyPage | `TestDirty`, `SetDirty`, `AddDirtyPage` |
| commit, flushLog | `Commit` (with and without waiting for the disk) |
| undoTrans, undoAll, abort | `Undo`, whose compensation goes on like a change; `Abort` |
| chkptCalcRedoLSN, getMinLSNOfAllActiveTrans | `CalcRedoLSN`, `ScanTrans` |
| writeBeginChkptLog | `WriteBeginChkptLog` |
| moveDirtyPagesFrom, writePIDLogs | `MoveDirtyPages` |
| writeDirtyPages, writePageImage | `ClearDirty`, `WritePage` |
| syncDB, sync of the log | `SyncDB` |
| updateStableNoOfAllMemTBSAndFlush, updateChkptAndFlush | `SwitchImage`, `UpdateChkpt` |
| the jumps to SKIP_REMOVE_LOGFILE | `SkipRemoveLogFile` (only in `SkipSpec`) |
| restartRecovery, redoAll, addActiveTrans, undoAll | `RedoAll`, `Undo`, `Abort`, `EndRestart` |

`Crash` keeps any prefix of the log that has at least what is synced (so the
log flush thread's own syncs need no action), and of the image being written any set of the
pages written since the last sync. The redo begins at the redo LSN and takes a
transaction for active only if it sees its first record, as addActiveTrans does; for another
it assumes the commit. Steps of the checkpoint that touch nothing another thread reads
in between are merged (moveDirtyPagesFrom with the PID logs and their sync; syncDB with the
sync of the log).

## 4. Runs

| run | instance | question |
|---|---|---|
| `LockMgr_item` | 3 transactions, 1 item, IS IX S, all failures | Are the lists, counts, mask, group mode, queue, slots and edges of an item right in all interleavings, and is the deadlock of two conversions seen? |
| `LockMgrHistory` | 2 transactions, 1 item, IS S X, nowait and time-outs, fairness | Does what was reported as locked stay locked? Does the whole inductive invariant of the proofs, `HInv`, hold, does the code implement `TableLock`? Does every wait end? |
| `TransWait_mixed` | 3 transactions, no legacy ones, 2 rows, table with IS and X, time-outs | Can transactions wait for each other, all past their check? Does a resume have its reason? Does the inductive invariant `WInv` hold? |
| `TransWait_live` | 2 slots with 2 transactions each, 2 rows, time-outs, events, legacy | Is a resume ever lost? Does every wait end? |
| `ViewSCN` | 2 slots, 2 statements each, 1 ager, fetch across commit, 1 commit SCN | Is the minimum an ager gets ever above a view in use or about to be? |
| `RowVisibility` | 2 slots with 2 transactions each, 2 versions, 2 commits | Does a reader judge versions by its snapshot, and is no update lost? |
| `RowVisibility_snapshot` | the same, 1 commit | Always? No: section 5 |
| `MemAger` | 2 transactions, 2 commits, 2 version slots, both agers | Is anything freed that is read or may be seen? Is every obsolete version owed exactly once? Does the code implement `Reclaim`? |
| `MemAger_live` | 2 transactions one after the other, 2 version slots, fairness of the agers | Is all garbage freed once the clients rest? |
| `Recovery` | 2 transactions, 1 page of two rows, 2 updates, a checkpoint before and one after a crash; only states in which `missed` is empty | Do image and log always give the committed state, where two writers share a page and its flag? Does the code implement `DurableStore`? |
| `Recovery_first` | 2 transactions, 2 pages of one row, a checkpoint before and one after a crash, every state | Is the redo LSN that of the oldest record of a transaction under way? No: section 5 |
| `Recovery_skip` | the same, with the checkpoints that keep the log files | Does a restart find the committed state after these, too? No: section 5 |

Bounds. Three transactions are what the queue needs: a holder, a waiter and
one behind it; S and IX are incompatible with each other and both compatible with IS, and
their conversion is SIX, so three requested modes reach S, IS, IX and SIX holders,
queues of two, conversions at the head of a queue and both ways between light and
heavy mode. X adds nothing there but longer waits; the run with two transactions has it. `LockMgrHistory` asks a mode
that is light, one that is compatible with itself and IS only, and one that is compatible with nothing; IX and SIX are
not asked there: with all five modes the check of `WaitEnds` takes too long (without it the same instance passes, 269,693
states). Transactions repeat for ever in their slots, a transaction
may lock and unlock any number of times; nothing else needs a bound. With one item the only cycles of waits are those of
conversions (two holders that both ask for more). Cycles over several tables, locked in different orders, are in no run on `LockMgr`: that one of
them sees it is proved, for any number of tables (`DeadlocksDetected`), and was checked once with two transactions and two
tables in X, with `WaitEnds` (3,113 states). Cycles over rows and a table are those of `TransWait_mixed`. The theorems of section 6 hold without bounds.

TransWait: a cycle of three waits over two rows and the table needs three
transactions; a link left behind needs one waiter, one holder and two waits; a TID
that changes between reading and registering needs a slot used twice. `LastTid`
bounds the transactions that a slot begins (`LastTid + 1`), `TidCycle` the TIDs before they
repeat. In the passing runs TidCycle > LastTid + 1, so that no TID repeats: the code's
TIDs repeat after 2^31 / mTransCnt transactions of a slot, and a waiter that slept that long between
reading a TID and registering is left out. `MaxLegacy` bounds the legacy transactions of
a slot. Legacy transactions beside a table break `ResumedWithReason` and `NoUndetectedDeadlock` (section 5), so the
passing runs have either the one or the other, `TransWait_mixed` a table and `TransWait_live` legacy transactions. What holds where they meet
is what is proved, under `NoTableLink`: nobody whom a freeAllRecordLock under way has still to visit, or has just resumed, waits for the table with
its column set. With that as a constraint `WInv`, `NoUndetectedDeadlock` and `ResumedWithReason` were checked once on two slots of three
transactions each, two rows and the table, legacy transactions, time-outs and events together, and on three slots and one row (4.8 million states).

ViewSCN: two slots are the one being walked and the one already passed; two
statements are what a slot's minimum needs (the older one ends first, or stays as a
legacy statement); one ager, since agers share nothing with each other. SCNs go up by 2
and views are odd, as in the code, where they go up by 8 with a view bit. The theorems hold
without bounds.

RowVisibility: a reader and a writer, each with two transactions so that the writer's
slot is reused while the reader looks at it; two commits, so that the next user of the
slot has a commit SCN of its own; two versions are an update, or an insert
beside a delete. MemAger: `VersionCnt` 2 is an update whose slot of the old version
is used again, and two commits are what it takes that the agers free the one while
somebody reads the other; `LastCommit` bounds the SCNs of transactions, `LastSCN` all of them, so
that the delete thread's own increments are not what stops.

Recovery: a page with two rows lets two writers meet at one flag, and one of them commit while the other has set
the flag and not linked the page; its image is written before, between or after their changes, and passes to both files.
Two updates are
two of one transaction, one of each, or one in each life of the server; `LastChkpt` is
counted for each life of the server (transaction slots and rows are symmetric), so that a checkpoint may end before the crash and
another after it, which is what the two images need; `LastCrash` is 1. With 2 crashes the
instance is out of reach; a crash during the restart is judged nevertheless by
`RecoverySound`, which says in every state what a restart from it would give, and by the theorems,
which have no bound on crashes. The same properties were checked once with two pages of one row each (2.7 million states), so that a checkpoint writes
one page before an update and one after, and `RedoGoesOn` with one page and two checkpoints in one life. The constraint `NoneMissed` of `Recovery` loses nothing:
its properties say nothing of a state in which a checkpoint has missed a writer, and `missed` only grows. The other two runs do without it.

Deadlock checking is on in the LockMgr runs: the system can always step. In the
other passing runs it is off: the bounds on transactions, SCNs or crashes let the clients stop.

Fairness (`FairSpec`). Weak fairness for steps that nobody else can disable (a thread
that holds the mutex goes on); strong fairness for those that compete for an item
mutex, since the code's mutexes let every contender in at some time; strong fairness of
`EndTrans`, since a wait is only required to end if clients end their
transactions. No fairness for time-outs and session events: every wait must end
without them, by a wake-up or by the deadlock check. For `TransWait`, strong
fairness of what a thread does of itself (`Thread`: mutexes and latches let every
contender in) and of `Commit` (clients end their transactions); none for time-outs,
events, new transactions or new requests. `AgerFairSpec`: weak fairness of the two
ager threads, which are loops that sleep for bounded times; nothing is asked of the
clients but what the property says (`AtRest`).

## 5. Findings

`RowVisibility_snapshot`: a reader without latch copies the SCNs of a version
(smnManager.h:421-422). The creation SCN is infinite, so it asks the slot of the
writer (getTransCommitSCN). Between the two the writer stamps the row and ends. The
slot is then free or has another TID, and getTransCommitSCN answers with aRecSCN
(smxTrans.cpp:3831-3833), which it takes to be the row itself, stamped by now, but which in
checkSCN is the local copy (SMX_GET_SCN_AND_TID, 486-487): still infinite. If the commit
was before the reader's view, the reader misses it: it does not see a new version, or sees
one that has been replaced; of two versions of one commit it may see one. The window is short,
the writer has to stamp all its rows within it. `NoFutureRead` holds regardless, and
`VerdictExact` says that this is the only exception. The writers' own validation passes a
pointer to the row header (smcRecord.cpp:3804, 4345) and is not concerned.

`Recovery_first`: a transaction's first record goes into the log, and the log's mutex is released
(smrLogMgr.cpp:3358); the LSN gets into its slot later (3385). The checkpoint reads the end of the log,
which is behind the record (smrRecoveryMgr.cpp:7169), and the slot, which is empty (7180): its redo LSN passes the record, against the comment at
7177 that it is the LSN of the oldest log of the transactions. The rest of the checkpoint writes the change, if it is made by then, to the image that
becomes the current one. After a crash addActiveTrans does not see the first record and takes the transaction for a
committed one (smxTransMgr.cpp:1024-1029): the change of an unfinished transaction stays. If there is no crash, the next checkpoint finds
the first LSN, and the redo LSN goes back; log files behind it may have been removed.

`Recovery_skip`: when an online redo of disk tablespaces is under way
(smrRecoveryMgr.cpp:7611-7631), or replication cannot say which log files it needs
(7676-7706, BUG-40294), the checkpoint updates the LSNs in the log anchor and jumps to
SKIP_REMOVE_LOGFILE, past updateStableNoOfAllMemTBSAndFlush (7768). The pages went to the
other image, but the anchor goes on naming the old one, together with a redo LSN up to which
only the new one is complete. A crash after it loads the old image and redoes too
little. The headers of both images' files get the new redo LSN
(smmTBSMediaRecovery.cpp:217), so the check of the headers at startup
(smmDatabaseFile.cpp:1893-1901) does not notice. The next full checkpoint ends the exposure.

Further findings, each from a run of a few seconds that is not kept; what TLC refutes is named with its instance:

* A transaction holds IS and asks S on the same table; it
  waits; S is granted by converting its node and the transaction is resumed, but
  the session event (query time-out, closed session) wins in `smxTrans::suspend`
  (smxTrans.cpp:1038). The error path calls unlockTable, which for a granted
  conversion (mDoRemove, smlLockMgr.cpp:3277) only frees the request node. The node
  in the lock list stays S without a slot for S. When the client asks S again,
  lockTable finds the mode covered and returns without a slot
  (2460-2481). The release of the statement's IS slot (788-792) then finds no other
  bit in the node's mask and frees the node: the S lock reported to the client is
  gone, where the comment at 784 says that only the IS lock is released.
  `AckedIsHeld` fails (`HSpec`, 2 transactions, 1 item, IS S X, Failure {"event"}). Without session events it holds: `LockMgrHistory` checks it, `ReportedIsHeld` proves it.
* A waiter that gives up is not taken out of the holder's list, only its column is
  cleared, and that left-over link is told from a live one by the column alone
  (smlLockMgr.cpp:2158). If the transaction meanwhile waits for a table on which the holder of the
  row has a mode, its column is 1 for that reason. When the holder commits with an open
  cursor, it keeps its IS lock (freeAllItemLockExceptIS), and freeAllRecordLock
  resumes the waiter out of its table wait: waitForLock returns success, though X has not been
  granted, where the comment at 2138 says that those who wait for a record lock are resumed. Without legacy transactions the holder frees the table, and with it the
  column, before it gets to the list (`TransWait_mixed`, `OnlyLegacyLinks`).
  `ResumedWithReason` fails (`Spec`, 2 slots, 1 row, IS and X, MaxLegacy 1, TidCycle 3, LastTid 1, Failure {"timeout"}).
* freeAllRecordLock clears the column of a waiter after it has resumed it (2161, 2164).
  The waiter runs on with no mutex in common: it takes a row, and asks for the table in X, on which the slot of the one
  that ends has kept IS. It registers with the column set, and now the column is cleared. The next transaction of
  that slot waits for the row, finds in isCycle that the other waits for nobody, and sleeps: two transactions
  past their check wait for each other, and only time-outs end it. waitForLock says (smxTransMgr.cpp:1544-1545) that it waits without limit
  only where there is no deadlock. `NoUndetectedDeadlock` fails (the same instance,
  Failure {}). The theorems say that a transaction which waits for the table on account of the slot is the only one
  to which freeAllRecordLock does harm.
* Two transactions change rows of one page. The second to log sets m_dirty
  (smmDirtyPageMgr.cpp:211); the first one finds it set, returns and commits, durably. A checkpoint moves the list: the page is not in it yet, against the comment at
  149 that the changed page is added to the list. Its redo LSN is the first LSN of the second transaction,
  which is behind the record of the one that committed. After a crash before the next checkpoint the commit is
  lost: it is in no image, and the redo begins behind it. `ChangedPagesListed` fails (`Recovery.cfg` without its constraint). `RestartSound` proves
  that a full checkpoint goes wrong in this window and that of `Recovery_first` only.
* At the end of a transaction, the loop that looks for the next TID (smxTrans.cpp:2181-2225)
  says `continue` when the TID belongs to a legacy transaction of the slot. In a do-while
  that evaluates the condition, which asks only for 0 and SM_NULL_TID, so the loop ends and
  the TID is used twice, against the comment at 2192. It takes a wrap of the TIDs.
* A waiter that gives up is not taken out of the holder's list, only its column is
  cleared. When it comes back while the holder still runs, registRecordLockWait
  finds it linked (smlLockMgr.cpp:2098) and leaves it where it was: it is resumed before those
  that came meanwhile, against the comment at 2101 (BUG-23823).

## 6. Proofs

Assumption for the lock manager: `ConstAssumption` (finitely many transactions; the asked modes are lock
modes; names that differ). Everything is proved for all transactions, items, modes
and failures.

* `Invariance`: `IInv` of `LockMgrInv` is inductive. The safety properties are not: the
  group mode is exact only between critical sections, and inside them a thread relies
  on what the others cannot do meanwhile. `IInv` says for each item what holds at
  every step: who has the mutex (`MutexItem`), that the request list has exactly the
  blocked transactions (`WaitItem`), that a light item is clean (`LightItem`), that
  one that saw light mode under its list mutex is still to be visited by any scan
  (`ListMutexItem`, the heart of the light protocol), that nobody holds a heavy
  mode while an item changes between light and heavy (`TransitionItem`), and that
  the books are exact for the transactions the scan has visited (`HeavyItem`).
  There is one lemma per action, and one for each group of actions that change an
  item in the same way.
* `MutualExclusion`, `GroupModeCorrect`, `LightModeCorrect`: consequences of `IInv`
  and of the algebra of the mode tables: `ConversionCompatible`
  lets one group mode stand for all holders, `DecisionAdds` makes the group mode
  extended by conversion agree with the one decided from the mask.
* `Implementation`: every step under `IInv` is a `TableLock` step on `held` or leaves
  it alone. The light grant, the in-place upgrade, the wake-up and the way back to
  light mode are each shown to be a `Grant` that every other holder allows.

* `WaitInvariance`: `WaitInv` is inductive beside `IInv`. `EdgeItem` is stronger than
  `WaitEdgesComplete`, and has to be: a queued request has an edge to *every* other holder and to
  everybody before it, compatible or not, since those ahead may be granted more later. Who
  jumps the queue by a conversion holds the item already, so the edge is there. `ChainInv` says
  that nothing is linked in a row when a wait begins, so that no edge is left out as already
  there. `QueueItem` says that the head cannot be granted whenever nobody has the mutex: the group
  mode only gets heavier while the queue is not empty, and whoever makes it lighter goes on
  to the wake-up. `AccountInv` says that a node's mask has the bits of its slots; the one
  exception is `SlotDue`, a request granted while its thread sleeps, which adds the
  slot itself when it runs again.
* `WakeUpsComplete`, `WaitForTableComplete`, `SlotsAccounted`: the three safety properties on
  queue, edges and slots. `QueueRespected`, `HandsOff`: the two action properties, that no new request
  is granted past the queue, and that a mode is changed only by its transaction, or for it
  while it waits.
* `DeadlocksDetected`: no set of transactions whose checks are all done waits for itself.
  `DeadlockInv` says what the check preserves: in every closed set of suspended transactions
  (`Closed`: each has an edge into the set) there is a closed subset in which one has its check
  still to come and has no cleared column that hides a member from it (`Detectable`). Who
  queues last is such a one itself (`BlockDeadlock`). A check
  that finds no cycle has seen a set closed under the edges (`PathClosed`: after as many rounds
  as there are transactions nothing is added any more; the induction is over a number, by the
  least counterexample). What it saw of a deadlock it is in is therefore a smaller deadlock, without it,
  and by the invariant one in there has its check still to come (`CheckDeadlockStep`). All other steps only let waiters
  go (`DeadlockKept`).
* `HistoryInvariance`, `ReportedIsHeld`: under the hypothesis that no session event ends a wait, which
  the finding of section 5 makes necessary. `HInv` adds to the invariants above that
  the mode of a node is what its mask decides (`ModeInv`), except for a conversion that was granted while
  its thread sleeps. Only so does clearing the IS bit at the end of a statement leave a mode that covers the other bits.

Assumption for the waits for rows: `WaitConstAssumption` (finitely many slots, names that differ, natural
bounds). The theorems are about behaviours in which `NoTableLink` holds in every state (`Spec /\ []NoTableLink => ...`): a freeAllRecordLock under way never comes
upon a transaction that waits for the table on account of its slot. Legacy transactions and the table may be used in the same slots, keep IS and leave links behind. The hypothesis is needed: without it two findings
of section 5 refute `ResumedWithReason` and `NoUndetectedDeadlock`.
`OnlyLegacyLinks` shows where it is no restriction: if slots have no legacy transactions, or no table is asked for
(`NoLegacyBesideTable`), every behaviour of `Spec` has it. There the transaction that ends has freed
the table, and with it the columns of those who wait for it, before it gets to its list.

* `WaitsInvariance`: `WInv` and `DeadlockInv` are inductive. `ResumeIsComing` is not: that the transaction waited for
  will find the sleeper needs that its list has him once (`ListInv`), that the column is set as long as he
  sleeps (`RowInv`), and that whoever is in a list with a column set sleeps, or a left-over link would wake
  somebody in a later wait. `ThreadInv` and `EndInv` say what a thread knows of its own call
  (a transaction that ends owns nothing more, and has freed the table before it gets to its list).
  `TableInv` says that a queued request has an edge to every other holder and to everybody before it;
  `ItemInv` that only one waiter at a time has the mutex of the table.
  `ChainInv` bounds isCycle: the lengths it writes are at most the number of columns it has linked, so
  it ends before it runs out of lengths (`CheckRoom`). The lemmas `Effect` and `OwnWait` give once and for all what
  a step may change of another transaction's wait, so that the parts of `WInv` need no case for each
  pair of an action and a waiter.
* `RowsClean`, `ResumesCome`, `WaitTypes`: consequences of `WInv`. `OnlyBlockedResumed`, `ResumesHaveReason`: the two
  action properties. The second says little more than its hypothesis where legacy transactions keep table locks; its weight is in
  `OnlyLegacyLinks` and in the waits for rows.
* `NoDeadlockUndetected`: the harder sister of `DeadlocksDetected`, since isCycle is cut into steps and
  others change the rows between them. `DeadlockInv` says that every closed set of sleepers has a closed
  subset with a `Seeker`: one whose check is still to come, or under way without having missed a
  member of the subset (`Searched`: whatever a row it has visited waits for inside the subset is linked).
  Edges between sleepers of a closed set only go away when one of them is resumed or gives up, which is no
  step of the set (`SeekersLeft`, `OthersSleep`); a new edge is one of the row of the waiter who sets it, who is himself a
  seeker then. A check that ends without a cycle leaves a closed subset without its
  transaction, which has a seeker by the invariant (`DeadlockStep`).

Assumption for the views: `ViewSCNAssumption` (at least one slot; the bounds are natural
numbers, of any size).

* `ViewInvariance`: `VInv` is inductive. `MinCoversViews` alone is not: while a walk is
  under way its result must already be at most the views of the slots it has passed, and
  the slot it looks at may be taking a view at that moment. `VInv` adds to the types that
  the minimum collected so far is below every view of the slots passed
  and below whatever view can be taken from now on (it began as the system's
  view); that a view read under mLSLockFlag is not yet in the slot only while the flag is up,
  which the walk waits out; that a slot's minimum is below its statements' views and
  that it counts (`ViewsCounted`), so that what the walk reads for the slot it is at covers it
  although minimum and status are read at different times.
* `MinimumSafe`, `ViewsAlwaysCounted`, `ViewTypes`: consequences of `VInv`.
* `MinimumExact`: beside `VInv`, `MinInv` says that without legacy statements a slot's
  minimum is one of its views, and the least, or infinite if there is none; that
  nothing is lost when the oldest statement ends is the point (`LeftExactly`).

Assumption for the versions: `RowVisibilityAssumption` besides. `RowVisibility` too has the
variables and actions of `ViewSCN`, so `VInv` is kept by its steps.

* `RowInvariance`: `RowInv` is inductive beside `VInv`. It relates each version to its writers
  (`CreateInv`, `LimitInv`, `ChainInv`), the writers to their slots (`CommitInv`, `TidInv`,
  `WriteInv`), and what a reader has copied to the history (`ReadInv`). The reader's part
  rests on one fact about all steps, `RowsGoOn`: whether a transaction committed before a view
  never changes once the view is there, because commits to come take later SCNs; so what a
  reader knows remains true whatever the others do meanwhile. What it read from the writer's slot says
  something of the writer only if the slot has the writer's TID at the end (`AskInv`), and TIDs only grow.
* `VerdictsExact`, `NoReadFromFuture`, `OwnersStay`, `RowTypes`: consequences of `RowInv`.
  `VerdictsExact` has the exception of the finding in section 5 (`late`), and no other.
* `NoLostUpdate`: the action property `FirstUpdaterWins`, from `RowInv`.

Assumption for the agers: `MemAgerAssumption` besides (two different scanners, at least
one slot for versions). `MemAger` has the variables and actions of `ViewSCN`, so each of its
steps keeps `VInv` (`ViewsKept`), the thread's own increment of the system SCN included.

* `AgerInvariance`: `AgerInv` is inductive beside `VInv`. Neither `ReadsNoFreed` nor
  `NothingLost` is: that a slot may be freed depends on why its item was taken long before.
  `RowInv` says that a dead version has one owner, first the transaction that replaced or
  undid it (`Owed`), then one item; that a transaction still owes only versions with a key;
  and that a version without a key is past for every view, open or about to be (`Past`).
  `ItemInv` carries this through the list: an item the ager has passed was below the
  minimum, so its versions are past and stay so (`PastKept`, since the system SCN only grows);
  from the deletion of its keys on nobody gets a pointer to them (`ReachKept`); and when it
  becomes erasable, whoever has a pointer has a view of at most its key-free SCN, which is
  the view of that moment. The delete thread waits for a minimum above it (`NobodyHolds`).
  `OwnInv` and `StatusInv` say what a transaction knows of its change at each step of its end.
* `NoFreedSlotRead`, `VisibleNotReclaimed`, `NoVersionLost`, `AgerTypesKept`: consequences of
  `AgerInv`.
* `AgersImplementReclaim`: with the mapping of `Collector` each step is a `Reclaim` step or
  changes nothing there; the only step that needs the invariant is `FreeItem`, a `Release`.

Assumption for the recovery: `RecoveryAssumption` (a page for each row; a name for "no writer" that
no transaction has; natural bounds). Transactions, rows, pages, checkpoints, crashes and updates are any number. All steps of a writer are steps of their own; what is proved holds
as long as no checkpoint has missed a writer (`missed = {}`), and no longer, as two findings of section 5 show.
So the theorems say that these two windows are the only ones of the checkpoint that is not cut short.

* `RecoveryInvariance`: `RecInv` is inductive while nothing is missed. To it a transaction has its first LSN from the moment its record is in the log (`Fst`):
  a scan that does not miss it reads the slot with the LSN set, or has a redo LSN that is not behind the record. And a page whose flag is set
  and which is in no list has a writer about to link it (`LinkDue`, in `ListInv`). `RecoverySound` is far from it: it speaks of a state only as
  a restart would see it. The proof takes the whole log for the truth: `Full(n)` is what the records from the
  first to n make of an empty database, rows (`Db`) and records still to undo (`Stack`), and everything
  else is related to it.
  `LogInv`: each record was logged by somebody who knew (`StepOK`: the old value it keeps is the row's, the
  compensation is that of the last record to undo, "first record" is true); the records to undo of two transactions are of
  different rows (`StackOK`); the state committed up to n is `Full(n)` rolled back.
  `MemInv`: the rows in memory are those of the log, but for changes logged and not yet made.
  `RunInv`: a transaction had nothing to undo before its first LSN, which the redo LSN does not pass; whose rows it
  has to undo, it owns.
  `AnchorInv`: the current image covers the redo LSN: each row is written again in the log from there to the last sync, or
  has the value that the log had there (`Covers`); who was at work at the redo LSN has ended, or
  undone everything, at some moment up to the begin checkpoint log, so that a redo that takes it for committed goes
  wrong only for a time (`NobodyAcross`); what no PID log notes and no redo touches is the same in both images (`Same`).
  `CkInv` says the same of the redo LSN of the checkpoint under way, step by step: at its start all LSNs from its
  redo LSN on are still to come, the page writes carry it from row to row, the sync of the log makes it lasting. `ListInv`: a
  page in no list is in the images. `RestartInv`: what is reset until the service begins.
* `Redone` is a recursive function. That it obeys its recursion is not in the library for functions of this form; it is shown
  from the choice of the function, existence and uniqueness each by the least counterexample. `RedoIsFull`
  is the heart of the rest: a redo from lo of an image that covers lo gives rows and stacks of the whole log, from the point on
  at which the image is covered and nobody is across. It is used for the restart (`RedoAllStep`) and for `RestartSound`.
* `RestartSound`, `ImagesCovered`: consequences of `RecInv`.
* `RecoveryImplementsStore`: in service, what readers see is the last committed state (`ShownIsLatest`: a row without writer
  has nothing to undo). A commit is `Commit`, a crash is `Crash` with the commits in what is left of the log, which
  has all that is acknowledged (acked never passes `synced`); the end of the restart is `Restarted`; the rest changes nothing there.
* `RedoNeverGoesBack`: the action property `RedoGoesOn`, from `RecInv`. It takes two checkpoints in one life, which no run has (section 4).

TLC checked `RecInv` before it was proved, on a smaller instance of `Recovery`. It is not a property of a run: `LogInv` is about every prefix
of the log in every state and takes too long on the instances of the runs. A crash in the middle of a second restart, which the
one crash of `Recovery` does not reach, is covered by the theorems.

A remark on the prover: tlapm 1.4.5 hands the intersection of two enumerated sets to SMT in a
form that makes it empty, so no leaf uses one; the proofs say `\notin` instead.

Only model-checked: `WaitEnds` and `Reclaimed`, liveness under fairness, which is out of the prover's reach. Of behaviours in which
`NoTableLink` fails, or a checkpoint has missed a writer, nothing is claimed but that they go wrong. The theorems on `Recovery` are about
`RecSpec`, without the jumps to SKIP_REMOVE_LOGFILE, which break `RecoverySound` (section 5).

## 7. Not modelled

Components that no module touches are listed with the reason in `PROJECT.json`. In the
modelled ones:

* ViewSCN: views of LOB cursors (getMinMemViewSCNwithLOB), mDoSkipCheckSCN, the global SCNs
  of shard transactions (mLastRequestSCN, mIsGCTx), disk views, the persistent system SCN.
* RowVisibility: reading one's own rows, SELECT FOR UPDATE, rows of legacy transactions,
  the double read of a full scan (BUG-48353), waitPendingTx.
* MemAger: several lists and parallel mode, instant aging, items of DDL, the lower
  priority by mTimeOut before the thread's own increment of the SCN, freeing of index
  nodes (freeNodesIfPossible).
* Recovery: the redo of disk tablespaces, group commit, prepared transactions, removal
  and archiving of log files and what replication asks to keep, media recovery, the
  copy of logs under FAST_UNLOCK_LOG_ALLOC_MUTEX (off by default), torn pages, the end
  checkpoint log (which redo passes over), creation and dropping of tablespaces.
