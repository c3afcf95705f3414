------------------------------ MODULE MemAger ------------------------------
(***************************************************************************)
(* Garbage collection of the memory tables.  A commit hands the version it *)
(* replaced, an abort the version it made, to a list (smaLogicalAger::     *)
(* addList).  The logical ager deletes the index keys of what no view can  *)
(* see (deleteIndex) and notes the view of that moment; the delete thread  *)
(* frees the slots when all views are later than that (smaDeleteThread::   *)
(* realDelete), for the indexes are searched without latches.  Both get    *)
(* the minimum view from the walk of ViewSCN.                              *)
(*                                                                         *)
(* One list, one logical ager, one delete thread: the default properties   *)
(* without parallel mode.  RowVisibility has the steps by which a commit   *)
(* reaches the versions; here it does so when it takes its SCN.            *)
(***************************************************************************)
EXTENDS ViewSCN, Sequences

CONSTANTS
  VersionCnt,   \* number of slots for versions
  LastCommit,   \* bound on the SCNs taken by transactions
  Ager, Deleter \* the two threads

ASSUME MemAgerAssumption ==
  /\ VersionCnt \in Nat \ {0}
  /\ LastCommit \in Nat
  /\ Scanners = {Ager, Deleter} /\ Ager # Deleter

VARIABLES
  slot,     \* state of each version's slot
  made,     \* the SCN of its creator, Infinite until commit
  gone,     \* the SCN of who replaced it, Infinite until commit
  key,      \* has it a key in the index?
  work,     \* the change of the transaction in a slot
  held,     \* pointers to versions each statement has got from the index
  oidList,  \* the ager's list from mTailDeleteThread on
  passed,   \* how many of its items the logical ager has passed
  ager,     \* step of the logical ager
  deleter   \* step and local variables of the delete thread

rowVars == <<slot, made, gone, key, held>>
listVars == <<oidList, passed>>
agerVars == <<viewVars, rowVars, work, listVars, ager, deleter>>

Versions == 1 .. VersionCnt
NoChange == [old |-> 0, new |-> 0, listed |-> FALSE]
Used == {v \in Versions : slot[v] = "used"}

\* A dummy item (mCondition 0) has no versions and SCN 0.
Item == [scn : 0 .. LastSCN, of : SUBSET Versions, finished : BOOLEAN, erasable : BOOLEAN,
         keyFree : Finite \cup {Infinite}, tid : Nat \cup {NullTID}]
Dummy == [scn |-> 0, of |-> {}, finished |-> TRUE, erasable |-> FALSE,
          keyFree |-> Infinite, tid |-> NullTID]
IsDummy(i) == i.of = {}

DeleterIdle == [step |-> "idle", upTo |-> 0, oldest |-> NullTID, handled |-> FALSE]

AgerInit ==
  /\ Init
  /\ slot = [v \in Versions |-> IF v = 1 THEN "used" ELSE "free"]
  /\ made = [v \in Versions |-> IF v = 1 THEN 0 ELSE Infinite]
  /\ gone = [v \in Versions |-> Infinite]
  /\ key = [v \in Versions |-> v = 1]
  /\ work = [s \in Slots |-> NoChange]
  /\ held = [s \in Slots |-> [k \in Stmts |-> {}]]
  /\ oidList = <<>>
  /\ passed = 0
  /\ ager = "idle"
  /\ deleter = DeleterIdle

(***************************************************************************)
(* Statements and transactions.                                            *)
(***************************************************************************)

\* A search in the index, without latch, gives a pointer to a version.
Reach(s, k, v) ==
  /\ pc[s] = "run" /\ k \in Open(s)
  /\ key[v] /\ v \notin held[s][k]
  /\ held' = [held EXCEPT ![s][k] = @ \cup {v}]
  /\ UNCHANGED <<viewVars, slot, made, gone, key, work, listVars, ager, deleter>>

LeaveStmt(s, k) ==
  /\ EndStmt(s, k)
  /\ held' = [held EXCEPT ![s][k] = {}]
  /\ UNCHANGED <<slot, made, gone, key, work, listVars, ager, deleter>>

\* The last version of a row, which nobody is changing, as the statement sees it.
Target(s, k, v) ==
  /\ k \in Open(s) \ legacy[s]
  /\ made[v] <= view[s][k] /\ gone[v] = Infinite
  /\ v \in Used /\ \A t \in Slots : work[t].old # v

Fill(n) ==
  /\ slot[n] = "free"
  /\ slot' = [slot EXCEPT ![n] = "used"]
  /\ made' = [made EXCEPT ![n] = Infinite]
  /\ gone' = [gone EXCEPT ![n] = Infinite]
  /\ key' = [key EXCEPT ![n] = TRUE]

Change(s, old, new) ==
  /\ pc[s] = "run" /\ work[s] = NoChange
  /\ work' = [work EXCEPT ![s].old = old, ![s].new = new]
  /\ UNCHANGED <<viewVars, held, listVars, ager, deleter>>

UpdateVersion(s, k, v, n) == Target(s, k, v) /\ Fill(n) /\ Change(s, v, n)
RemoveVersion(s, k, v) == Target(s, k, v) /\ Change(s, v, 0) /\ UNCHANGED <<slot, made, gone, key>>
InsertVersion(s, n) == Open(s) \ legacy[s] # {} /\ Fill(n) /\ Change(s, 0, n)

\* f with x for v, if v is a version.
Put(f, v, x) == [w \in DOMAIN f |-> IF w = v THEN x ELSE f[w]]

CommitChange(s) ==
  /\ TakeSCN(s)
  /\ lst + 2 <= LastCommit
  /\ made' = Put(made, work[s].new, lst + 2)
  /\ gone' = Put(gone, work[s].old, lst + 2)
  /\ UNCHANGED <<slot, key, held, work, listVars, ager, deleter>>

\* Mutants of Obsolete: no check for a missing version; an abort hands over the old one.
ObsoleteNull(s) == {IF mStatus[s] = "COMMIT" THEN work[s].old ELSE work[s].new}
ObsoleteOld(s) == {work[s].old} \ {0}

\* What a transaction hands over: on commit what it replaced, on abort what it made.
Obsolete(s) == {IF mStatus[s] = "COMMIT" THEN work[s].old ELSE work[s].new} \ {0}

\* addOIDList2LogicalAger, not called by a commit that has only inserted.
AddList(s) ==
  /\ pc[s] = "finish" /\ Obsolete(s) # {} /\ ~work[s].listed
  /\ oidList' = Append(oidList, [scn |-> mCommitSCN[s], of |-> Obsolete(s), finished |-> FALSE,
                                 erasable |-> FALSE, keyFree |-> Infinite, tid |-> mTransID[s]])
  /\ work' = [work EXCEPT ![s].listed = TRUE]
  /\ UNCHANGED <<viewVars, rowVars, passed, ager, deleter>>

\* setOIDListFinished, when processOIDList has stamped the rows.
SetFinished(s) ==
  /\ pc[s] = "finish" /\ work[s].listed
  /\ \E i \in DOMAIN oidList :
       /\ oidList[i].tid = mTransID[s] /\ ~oidList[i].finished
       /\ oidList' = [oidList EXCEPT ![i].finished = TRUE]
  /\ work' = [work EXCEPT ![s] = NoChange]
  /\ UNCHANGED <<viewVars, rowVars, passed, ager, deleter>>

\* end() comes when everything is handed over.
EndWork(s) ==
  /\ EndStatus(s)
  /\ Obsolete(s) = {}
  /\ work' = [work EXCEPT ![s] = NoChange]
  /\ UNCHANGED <<rowVars, listVars, ager, deleter>>

Otherwise(s) ==
  /\ \/ Begin(s) \/ OpensView(s)
     \/ PreCommit(s) /\ work[s] # NoChange
     \/ CommitEmpty(s) /\ work[s] = NoChange
     \/ Abort(s) /\ (mCommitSCN'[s] = lst \/ work[s] = NoChange)
     \/ SetCommitSCN(s) \/ SetCommitStatus(s) \/ HoldView(s) \/ NextTID(s) \/ InitSlot(s)
  /\ UNCHANGED <<rowVars, work, listVars, ager, deleter>>

User(s) ==
  \/ \E k \in Stmts : \/ LeaveStmt(s, k)
                      \/ \E v \in Versions : Reach(s, k, v) \/ RemoveVersion(s, k, v)
                      \/ \E v, n \in Versions : UpdateVersion(s, k, v, n)
  \/ \E n \in Versions : InsertVersion(s, n)
  \/ CommitChange(s) \/ AddList(s) \/ SetFinished(s) \/ EndWork(s) \/ Otherwise(s)

(***************************************************************************)
(* The logical ager: smaLogicalAger::run.                                  *)
(***************************************************************************)

HasTail == passed < Len(oidList)
Next1 == oidList[passed + 1]

\* addDummyOID: the last item is only handled when another follows.
AddDummy ==
  /\ ager = "idle" /\ passed + 1 = Len(oidList) /\ ~IsDummy(Next1)
  /\ oidList' = Append(oidList, Dummy)
  /\ UNCHANGED <<viewVars, rowVars, work, passed, ager, deleter>>

AgerStart ==
  /\ ager = "idle" /\ HasTail
  /\ passed + 1 < Len(oidList) \/ IsDummy(Next1)
  /\ StartScan(Ager)
  /\ ager' = "scan"
  /\ UNCHANGED <<rowVars, work, listVars, deleter>>

AgerScan ==
  /\ PassFlag(Ager) \/ ReadMin(Ager) \/ TakeMin(Ager)
  /\ UNCHANGED <<rowVars, work, listVars, ager, deleter>>

AgerScanned ==
  /\ EndScan(Ager)
  /\ ager' = "take"
  /\ UNCHANGED <<rowVars, work, listVars, deleter>>

\* Mutant of MayTake: an item is taken at the minimum view, not below it.
MayTakeAt == passed + 1 < Len(oidList) /\ Next1.finished /\ Next1.scn <= safe[Ager] + 1

MayTake == passed + 1 < Len(oidList) /\ Next1.finished /\ Next1.scn < safe[Ager]

AgerTake ==
  /\ ager = "take" /\ MayTake
  /\ passed' = passed + 1
  /\ ager' = "keys"
  /\ UNCHANGED <<viewVars, rowVars, work, oidList, deleter>>

DeleteIndex ==
  /\ ager = "keys"
  /\ key' = [v \in Versions |-> key[v] /\ v \notin oidList[passed].of]
  /\ ager' = "erase"
  /\ UNCHANGED <<viewVars, slot, made, gone, held, work, listVars, deleter>>

\* Mutant of KeyFreeSCN: the SCN of the item, as if no key had been deleted.
KeyFreeSCNOld(i) == i.scn

\* The view of the moment, if a key was deleted.
KeyFreeSCN(i) == IF IsDummy(i) THEN i.scn ELSE ViewOf(lst)

SetErasable ==
  /\ ager = "erase"
  /\ oidList' = [oidList EXCEPT ![passed].keyFree = KeyFreeSCN(oidList[passed]),
                                ![passed].erasable = TRUE]
  /\ ager' = "take"
  /\ UNCHANGED <<viewVars, rowVars, work, passed, deleter>>

AgerStop ==
  /\ ager = "take" /\ ~MayTake
  /\ ager' = "idle"
  /\ UNCHANGED <<viewVars, rowVars, work, listVars, deleter>>

(***************************************************************************)
(* The delete thread: smaDeleteThread::realDelete.                         *)
(***************************************************************************)

Erasable == oidList # <<>> /\ oidList[1].erasable

\* The ager's tail is read before the minimum view.
DeleterHead ==
  /\ deleter.step = "idle" /\ Erasable
  /\ deleter' = [deleter EXCEPT !.step = "head", !.upTo = passed + 1]
  /\ UNCHANGED <<viewVars, rowVars, work, listVars, ager>>

DeleterStart ==
  /\ deleter.step = "head"
  /\ StartScan(Deleter)
  /\ deleter' = [deleter EXCEPT !.step = "scan"]
  /\ UNCHANGED <<rowVars, work, listVars, ager>>

DeleterScan ==
  /\ PassFlag(Deleter) \/ ReadMin(Deleter) \/ TakeMin(Deleter)
  /\ UNCHANGED <<rowVars, work, listVars, ager, deleter>>

DeleterScanned ==
  /\ EndScan(Deleter)
  /\ deleter' = [deleter EXCEPT !.step = "free", !.oldest = Taken(Deleter).tid]
  /\ UNCHANGED <<rowVars, work, listVars, ager>>

\* Mutant of IsAgingTarget: at the minimum too, as before BUG-18343.
IsAgingTargetAt == deleter.upTo > 0 /\ Erasable /\ oidList[1].keyFree <= safe[Deleter]

IsAgingTarget == deleter.upTo > 0 /\ Erasable /\ oidList[1].keyFree < safe[Deleter]

\* processAgingOIDNodeList: the slots are freed, but not for others to take yet.
FreeItem ==
  /\ deleter.step = "free" /\ IsAgingTarget
  /\ slot' = [v \in Versions |-> IF v \in oidList[1].of THEN "freed" ELSE slot[v]]
  /\ deleter' = [deleter EXCEPT !.upTo = @ - 1, !.handled = @ \/ ~IsDummy(oidList[1])]
  /\ oidList' = Tail(oidList)
  /\ passed' = passed - 1
  /\ UNCHANGED <<viewVars, made, gone, key, held, work, ager>>

\* Mutant of DeleterCommit: the system SCN is never moved on.
DeleterCommitOnly ==
  /\ deleter.step = "free" /\ ~IsAgingTarget
  /\ slot' = [v \in Versions |-> IF slot[v] = "freed" THEN "free" ELSE slot[v]]
  /\ deleter' = DeleterIdle
  /\ UNCHANGED <<viewVars, made, gone, key, held, work, listVars, ager>>

\* The commit of the thread's transaction puts them into the free lists
\* (processFreeSlotPending).
DeleterCommit ==
  /\ deleter.step = "free" /\ ~IsAgingTarget
  /\ slot' = [v \in Versions |-> IF slot[v] = "freed" THEN "free" ELSE slot[v]]
  /\ deleter' = [DeleterIdle EXCEPT !.step =
                   IF ~deleter.handled /\ deleter.oldest = NullTID THEN "bump" ELSE "idle"]
  /\ UNCHANGED <<viewVars, made, gone, key, held, work, listVars, ager>>

\* Without anything to free and without any view, the system SCN is moved on.
IncreaseSystemSCN ==
  /\ deleter.step = "bump"
  /\ lst + 2 <= LastSCN
  /\ lst' = lst + 2
  /\ deleter' = DeleterIdle
  /\ UNCHANGED <<transVars, stmtVars, pc, scn, scanVars, rowVars, work, listVars, ager>>

AgerStep ==
  AddDummy \/ AgerStart \/ AgerScan \/ AgerScanned \/ AgerTake \/ DeleteIndex \/ SetErasable \/ AgerStop
DeleterStep ==
  \/ DeleterHead \/ DeleterStart \/ DeleterScan \/ DeleterScanned
  \/ FreeItem \/ DeleterCommit \/ IncreaseSystemSCN

AgerNext == (\E s \in Slots : User(s)) \/ AgerStep \/ DeleterStep

AgerSpec == AgerInit /\ [][AgerNext]_agerVars

(***************************************************************************)
(* Properties.                                                             *)
(***************************************************************************)

\* Every variable keeps its type.
AgerTypeOK ==
  /\ TypeOK
  /\ slot \in [Versions -> {"free", "used", "freed"}]
  /\ made \in [Versions -> 0 .. LastSCN \cup {Infinite}]
  /\ gone \in [Versions -> 0 .. LastSCN \cup {Infinite}]
  /\ key \in [Versions -> BOOLEAN]
  /\ work \in [Slots -> [old : {0} \cup Versions, new : {0} \cup Versions, listed : BOOLEAN]]
  /\ held \in [Slots -> [Stmts -> SUBSET Versions]]
  /\ oidList \in Seq(Item)
  /\ passed \in 0 .. Len(oidList)
  /\ ager \in {"idle", "scan", "take", "keys", "erase"}
  /\ deleter \in [step : {"idle", "head", "scan", "free", "bump"}, upTo : Nat,
                  oldest : Nat \cup {NullTID}, handled : BOOLEAN]

\* A search without latches never leads to a slot that is being freed or has been
\* reused, neither through a pointer it got before the key was deleted nor through
\* a key (deleteIndex, isAgingTarget; BUG-18343).
ReadsNoFreed ==
  /\ \A s \in Slots, k \in Stmts : held[s][k] \subseteq Used
  /\ \A v \in Versions : key[v] => v \in Used

\* What a statement may see stays in the index and in its slot until the statement
\* ends, whatever other transactions and the agers do meanwhile.
VisibleStays ==
  \A s \in Slots : \A k \in Open(s) : \A v \in Versions :
    made[v] <= view[s][k] /\ view[s][k] < gone[v] => key[v] /\ v \in Used

\* Versions that a transaction still has to decide on or to hand over.
Committed(s) == pc[s] \in {"taken", "scnset"} \/ mStatus[s] = "COMMIT"
Owed(s) ==
  IF work[s].listed THEN {}
  ELSE {work[s].old} \cup (IF Committed(s) THEN {} ELSE {work[s].new})
Items(v) == {i \in DOMAIN oidList : v \in oidList[i].of}
Dead(v) == made[v] = Infinite \/ gone[v] # Infinite

\* A dead version is in one item of the list, or its transaction will still hand it
\* over; a version that is alive, or freed, is in none: no slot leaks and none is
\* freed twice, through commits, aborts and the agers' steps (addOIDList2LogicalAger).
NothingLost ==
  \A v \in Versions :
    IF v \in Used /\ Dead(v)
    THEN Cardinality(Items(v)) + Cardinality({s \in Slots : v \in Owed(s)}) = 1
    ELSE Items(v) = {}

Collector == INSTANCE Reclaim WITH
  Readers <- Slots \X Stmts,
  store <- Used,
  linked <- {v \in Versions : key[v]},
  held <- [r \in Slots \X Stmts |-> held[r[1]][r[2]]]

\* The two threads, with their lists, SCNs and walks, keep the promise of Reclaim:
\* keys go before slots, and a slot goes when no reader has a pointer to it.
ImplementsReclaim == Collector!Spec

(***************************************************************************)
(* Liveness.  The two threads are scheduled; nothing is asked of clients.  *)
(***************************************************************************)

AgerFairness == WF_agerVars(AgerStep) /\ WF_agerVars(DeleterStep)

AgerFairSpec == AgerSpec /\ AgerFairness

\* No statement is open and no transaction is taking a view or ending.
AtRest == \A s \in Slots : Open(s) = {} /\ pc[s] \in {"run", "end"}

\* When the clients come to rest, everything handed over is freed, the last item of
\* the list too (addDummyOID), though no commit moves the system SCN any more
\* (realDelete): neither thread waits for what only a new transaction would bring.
\* Without the rest it need not be: readers that never commit, one of them open at
\* each walk, keep the minimum at the SCN of the deleted keys.
Reclaimed ==
  <>[]AtRest => \A v \in Versions : Items(v) # {} ~> slot[v] = "free"
=============================================================================
