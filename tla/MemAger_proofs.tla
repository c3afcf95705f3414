--------------------------- MODULE MemAger_proofs ---------------------------
(***************************************************************************)
(* The agers of the memory tables free nothing that anyone can still see   *)
(* or reach, and lose no version, for any number of slots, statements and  *)
(* versions and without bound on commits.                                  *)
(*                                                                         *)
(* The argument.  A dead version has one owner: the transaction that will  *)
(* hand it over, then one item of the list (RowInv).  An item is taken when*)
(* its SCN is below the minimum, which VInv puts below every view that is  *)
(* open or can still be taken: from then on nobody may see its versions    *)
(* (Past).  A pointer to a version belongs to a statement that began before*)
(* the version's key was deleted, so that its view is at most the key-free *)
(* SCN (ItemInv); the delete thread waits for a minimum above that.        *)
(***************************************************************************)
EXTENDS MemAger, ViewSCN_proofs, FiniteSetTheorems

\* What the slot of a transaction says about its step.
StatusInv(s) ==
  /\ pc[s] \in {"run", "view", "set"} => mStatus[s] = "BEGIN"
  /\ pc[s] \in {"precommit", "taken", "scnset"} => mStatus[s] = "PRECOMMIT"
  /\ pc[s] = "committed" => mStatus[s] = "COMMIT"
  /\ pc[s] = "finish" => mStatus[s] \in {"COMMIT", "ABORT"}
  /\ pc[s] = "finish" /\ mStatus[s] = "ABORT" /\ work[s] # NoChange => mCommitSCN[s] # Infinite
  /\ pc[s] \in {"end", "ended", "init"} => work[s] = NoChange
  /\ work[s].listed => pc[s] = "finish"

\* The commit SCN a transaction has taken, wherever it is.
SCNOf(s) == IF pc[s] = "taken" THEN scn[s] ELSE mCommitSCN[s]

\* A transaction owes what it is changing: the old version is the last one of its
\* row, until the commit ends it with its SCN; the new one is nobody's, until then.
OwnInv(s) ==
  LET old == work[s].old
      new == work[s].new
  IN  ~work[s].listed =>
        /\ old # 0 /\ ~Committed(s) => made[old] # Infinite /\ gone[old] = Infinite
        /\ old # 0 /\ Committed(s) => gone[old] # Infinite /\ gone[old] = SCNOf(s)
        /\ new # 0 /\ ~Committed(s) => made[new] = Infinite /\ gone[new] = Infinite /\ new # old

\* Every view, and any that can still be taken, is later than the end of v.
Past(v) ==
  made[v] = Infinite \/ (gone[v] <= ViewOf(lst) /\ \A s \in Slots : Covers(gone[v], s))

RowInv(v) ==
  /\ key[v] => v \in Used
  /\ ~key[v] => Past(v)
  /\ v \in Used /\ Dead(v) => Items(v) # {} \/ \E s \in Slots : v \in Owed(s)
  /\ \A s \in Slots : v \in Owed(s) => key[v] /\ Items(v) = {}
  /\ \A s, t \in Slots : v \in Owed(s) /\ v \in Owed(t) => s = t
  /\ \A i, j \in Items(v) : i = j

KeysGone(i) == i < passed \/ (i = passed /\ ager # "keys")

ItemInv(i) ==
  /\ \A v \in oidList[i].of :
       /\ v \in Used /\ Dead(v)
       /\ made[v] = Infinite \/ gone[v] <= oidList[i].scn
       /\ i <= passed => Past(v)
       /\ KeysGone(i) => ~key[v]
       /\ oidList[i].erasable =>
            \A s \in Slots, k \in Stmts : v \in held[s][k] => view[s][k] <= oidList[i].keyFree
  /\ oidList[i].erasable => i <= passed /\ (i = passed => ager \notin {"keys", "erase"})

HeldInv(s) ==
  \A k \in Stmts : held[s][k] \subseteq Used /\ (held[s][k] # {} => k \in Open(s))

\* The ager walks in one of its steps only.
AgerWalks == scan[Ager].step # "idle" => ager = "scan"

AgerInv ==
  /\ AgerTypeOK
  /\ \A s \in Slots : StatusInv(s) /\ OwnInv(s) /\ HeldInv(s)
  /\ \A v \in Versions : RowInv(v)
  /\ \A i \in DOMAIN oidList : ItemInv(i)
  /\ ager \in {"keys", "erase"} => passed > 0
  /\ AgerWalks

-----------------------------------------------------------------------------
(* The views.                                                              *)

\* A scanner's step changes no view.
LEMMA ScanGoesOn ==
  ASSUME VInv, NEW a \in Scanners, Scan(a)
  PROVE  VInv' /\ ViewsGoOn
<1>1. VInv'
  BY Kept DEF Next
<1>2. UNCHANGED <<lst, transVars, stmtVars, pc, scn>>
  BY DEF Scan, StartScan, PassFlag, ReadMin, TakeMin, EndScan
<1>3. TypeOK
  BY DEF VInv
<1>4. lst \in Nat
  BY <1>3, ViewSCNAssumption DEF TypeOK
<1> QED BY <1>1, <1>2, <1>4 DEF ViewsGoOn, stmtVars

\* A transaction's step changes views only as ViewsGoOn says.
LEMMA TransGoesOn ==
  ASSUME VInv, NEW s \in Slots, Trans(s)
  PROVE  VInv' /\ ViewsGoOn
<1>1. VInv'
  BY Kept DEF Next
<1>2. ViewStep
  BY SlotSteps DEF Good
<1> QED BY <1>1, <1>2 DEF ViewsGoOn, ViewStep

\* A step that leaves SCNs, views and walks alone.
LEMMA NothingGoesOn ==
  ASSUME VInv, UNCHANGED viewVars
  PROVE  VInv' /\ ViewsGoOn
<1>1. VInv'
  BY Kept
<1>2. TypeOK
  BY DEF VInv
<1>3. lst \in Nat
  BY <1>2, ViewSCNAssumption DEF TypeOK
<1> QED BY <1>1, <1>3 DEF ViewsGoOn, viewVars, stmtVars

\* The delete thread's own increment of the system SCN disturbs no view.
LEMMA SystemGoesOn ==
  ASSUME VInv, IncreaseSystemSCN
  PROVE  VInv' /\ ViewsGoOn
<1>1. TypeOK /\ lst \in Nat /\ lst' = lst + 2 /\ lst' <= LastSCN /\ LastSCN \in Nat
  BY ViewSCNAssumption DEF VInv, TypeOK, IncreaseSystemSCN
<1>2. UNCHANGED <<mStatus, mCommitSCN, mMinMemViewSCN, mLSLockFlag, mTransID, view, legacy, pc, scn, scan, safe>>
  BY DEF IncreaseSystemSCN, transVars, stmtVars, scanVars
<1>3. TypeOK'
  <2>1. lst' \in 0 .. LastSCN
    BY <1>1
  <2> QED BY <1>1, <1>2, <2>1 DEF TypeOK
<1>4. ASSUME NEW s \in Slots PROVE SlotInv(s)'
  BY <1>1, <1>2, OthersKept DEF VInv
<1>5. ViewStep
  BY <1>1, <1>2 DEF ViewStep
<1>6. \A a \in Scanners : ScanInv(a)'
  BY <1>5, ScanKept
<1> QED BY <1>3, <1>4, <1>5, <1>6 DEF VInv, ViewsGoOn, ViewStep

\* Every step keeps VInv, and the views go on.
LEMMA ViewsKept ==
  ASSUME VInv, AgerNext
  PROVE  VInv' /\ ViewsGoOn
<1>1. Ager \in Scanners /\ Deleter \in Scanners
  BY MemAgerAssumption
<1>2. ASSUME NEW s \in Slots, User(s) PROVE Trans(s) \/ UNCHANGED viewVars
  BY <1>2 DEF User, LeaveStmt, Reach, RemoveVersion, UpdateVersion, InsertVersion, Change, CommitChange, AddList,
     SetFinished, EndWork, Otherwise, Trans, Committing, Ending
<1>3. CASE AgerStep
  <2>1. Scan(Ager) \/ UNCHANGED viewVars
    BY <1>3 DEF AgerStep, AddDummy, AgerStart, AgerScan, AgerScanned, AgerTake, DeleteIndex, SetErasable,
       AgerStop, Scan
  <2> QED BY <2>1, <1>1, ScanGoesOn, NothingGoesOn
<1>4. CASE DeleterStep
  <2>1. Scan(Deleter) \/ UNCHANGED viewVars \/ IncreaseSystemSCN
    BY <1>4 DEF DeleterStep, DeleterHead, DeleterStart, DeleterScan, DeleterScanned, FreeItem, DeleterCommit, Scan
  <2> QED BY <2>1, <1>1, ScanGoesOn, NothingGoesOn, SystemGoesOn
<1> QED BY <1>2, <1>3, <1>4, TransGoesOn, NothingGoesOn DEF AgerNext

-----------------------------------------------------------------------------
(* Types and steps of a transaction.                                       *)

\* What the types say of numbers.
LEMMA Numbers ==
  ASSUME AgerTypeOK
  PROVE  /\ LastSCN \in Nat /\ Infinite = LastSCN + 2 /\ lst \in 0 .. LastSCN
         /\ \A v \in Versions : made[v] \in Nat /\ gone[v] \in Nat
         /\ \A s \in Slots, k \in Stmts : view[s][k] \in 0 .. LastSCN + 1
         /\ passed \in Nat /\ Len(oidList) \in Nat /\ passed <= Len(oidList)
         /\ \A i \in 1 .. Len(oidList) : oidList[i] \in Item
<1>1. TypeOK
  BY DEF AgerTypeOK
<1> QED BY <1>1, ViewSCNAssumption DEF AgerTypeOK, TypeOK, Infinite, Finite

\* The steps of a transaction keep the types; an item never gets the SCN Infinite.
LEMMA UserTypes ==
  ASSUME AgerTypeOK, TypeOK', NEW s \in Slots, StatusInv(s), OwnInv(s), User(s)
  PROVE  AgerTypeOK'
<1> USE MemAgerAssumption
<1>1. LastSCN \in Nat /\ Infinite = LastSCN + 2 /\ lst \in 0 .. LastSCN
  BY Numbers
<1>2. ASSUME NEW k \in Stmts, NEW v \in Versions, Reach(s, k, v) PROVE AgerTypeOK'
  <2>1. held[s] \in [Stmts -> SUBSET Versions] /\ held' = [held EXCEPT ![s][k] = @ \cup {v}]
    BY <1>2 DEF Reach, AgerTypeOK
  <2>2. held' \in [Slots -> [Stmts -> SUBSET Versions]]
    BY <2>1 DEF AgerTypeOK
  <2> QED BY <1>2, <2>2 DEF Reach, AgerTypeOK, listVars
<1>3. ASSUME NEW k \in Stmts, LeaveStmt(s, k) PROVE AgerTypeOK'
  <2>1. held[s] \in [Stmts -> SUBSET Versions] /\ held' = [held EXCEPT ![s][k] = {}]
    BY <1>3 DEF LeaveStmt, AgerTypeOK
  <2>2. held' \in [Slots -> [Stmts -> SUBSET Versions]]
    BY <2>1 DEF AgerTypeOK
  <2> QED BY <1>3, <2>2 DEF LeaveStmt, AgerTypeOK, listVars
<1>4. ASSUME NEW n \in Versions, Fill(n)
      PROVE  /\ slot' \in [Versions -> {"free", "used", "freed"}]
             /\ made' \in [Versions -> 0 .. LastSCN \cup {Infinite}]
             /\ gone' \in [Versions -> 0 .. LastSCN \cup {Infinite}]
             /\ key' \in [Versions -> BOOLEAN]
  BY <1>4 DEF Fill, AgerTypeOK
<1>5. ASSUME NEW old \in {0} \cup Versions, NEW new \in {0} \cup Versions, Change(s, old, new)
      PROVE  /\ work' \in [Slots -> [old : {0} \cup Versions, new : {0} \cup Versions, listed : BOOLEAN]]
             /\ UNCHANGED <<held, oidList, passed, ager, deleter>>
  <2>1. /\ work[s] \in [old : {0} \cup Versions, new : {0} \cup Versions, listed : BOOLEAN]
        /\ work' = [work EXCEPT ![s] = [work[s] EXCEPT !.old = old, !.new = new]]
    BY <1>5 DEF Change, AgerTypeOK
  <2>2. [work[s] EXCEPT !.old = old, !.new = new] \in [old : {0} \cup Versions, new : {0} \cup Versions, listed : BOOLEAN]
    BY <2>1
  <2> QED BY <2>1, <2>2, <1>5 DEF Change, AgerTypeOK, listVars
<1>6. ASSUME NEW v \in Versions, NEW n \in Versions, NEW k \in Stmts, UpdateVersion(s, k, v, n) PROVE AgerTypeOK'
  BY <1>6, <1>4, <1>5 DEF UpdateVersion, AgerTypeOK
<1>7. ASSUME NEW v \in Versions, NEW k \in Stmts, RemoveVersion(s, k, v) PROVE AgerTypeOK'
  BY <1>7, <1>5 DEF RemoveVersion, AgerTypeOK
<1>8. ASSUME NEW n \in Versions, InsertVersion(s, n) PROVE AgerTypeOK'
  BY <1>8, <1>4, <1>5 DEF InsertVersion, AgerTypeOK
<1>9. CASE CommitChange(s)
  <2>1. lst + 2 \in 0 .. LastSCN
    BY <1>9, <1>1 DEF CommitChange, TakeSCN
  <2> QED BY <2>1, <1>9 DEF CommitChange, Put, AgerTypeOK, listVars
<1>10. CASE AddList(s)
  <2> DEFINE item == [scn |-> mCommitSCN[s], of |-> Obsolete(s), finished |-> FALSE,
                      erasable |-> FALSE, keyFree |-> Infinite, tid |-> mTransID[s]]
  <2>0. mCommitSCN[s] # Infinite
    BY <1>10, <1>1 DEF AddList, Obsolete, StatusInv, OwnInv, SCNOf, Committed, NoChange
  <2>1. mTransID[s] \in Nat /\ mCommitSCN[s] \in 0 .. LastSCN
    BY <2>0 DEF AgerTypeOK, TypeOK
  <2>2. Obsolete(s) \in SUBSET Versions
    BY DEF Obsolete, AgerTypeOK
  <2>3. item \in Item
    BY <2>1, <2>2 DEF Item
  <2>4. oidList' = Append(oidList, item)
    BY <1>10 DEF AddList
  <2> HIDE DEF item
  <2>5. oidList' \in Seq(Item) /\ Len(oidList') = Len(oidList) + 1
    BY <2>3, <2>4 DEF AgerTypeOK
  <2>6. work' \in [Slots -> [old : {0} \cup Versions, new : {0} \cup Versions, listed : BOOLEAN]]
    <3>1. work[s] \in [old : {0} \cup Versions, new : {0} \cup Versions, listed : BOOLEAN]
      BY DEF AgerTypeOK
    <3>2. [work[s] EXCEPT !.listed = TRUE] \in [old : {0} \cup Versions, new : {0} \cup Versions, listed : BOOLEAN]
      BY <3>1
    <3>3. work' = [work EXCEPT ![s] = [work[s] EXCEPT !.listed = TRUE]]
      BY <1>10 DEF AddList
    <3> QED BY <3>2, <3>3 DEF AgerTypeOK
  <2>7. passed' \in 0 .. Len(oidList')
    BY <2>5, <1>10 DEF AddList, AgerTypeOK
  <2> QED BY <2>5, <2>6, <2>7, <1>10 DEF AddList, AgerTypeOK, rowVars
<1>11. CASE SetFinished(s)
  <2>1. PICK i \in DOMAIN oidList : oidList' = [oidList EXCEPT ![i] = [oidList[i] EXCEPT !.finished = TRUE]]
    BY <1>11 DEF SetFinished
  <2>2. oidList[i] \in Item
    BY <2>1 DEF AgerTypeOK
  <2>3. [oidList[i] EXCEPT !.finished = TRUE] \in Item
    BY <2>2 DEF Item
  <2>4. oidList' \in Seq(Item) /\ Len(oidList') = Len(oidList)
    BY <2>1, <2>3 DEF AgerTypeOK
  <2>5. work' \in [Slots -> [old : {0} \cup Versions, new : {0} \cup Versions, listed : BOOLEAN]]
    BY <1>11 DEF SetFinished, AgerTypeOK, NoChange
  <2> QED BY <2>4, <2>5, <1>11 DEF SetFinished, AgerTypeOK, rowVars
<1>12. CASE EndWork(s)
  BY <1>12 DEF EndWork, AgerTypeOK, rowVars, listVars, NoChange
<1>13. CASE Otherwise(s)
  BY <1>13 DEF Otherwise, AgerTypeOK, rowVars, listVars
<1> QED BY <1>2, <1>3, <1>6, <1>7, <1>8, <1>9, <1>10, <1>11, <1>12, <1>13 DEF User

\* The steps of the logical ager keep the types.
LEMMA AgerTypes ==
  ASSUME AgerTypeOK, TypeOK', AgerStep, ager \in {"keys", "erase"} => passed > 0
  PROVE  AgerTypeOK'
<1> USE MemAgerAssumption
<1>1. /\ LastSCN \in Nat /\ Infinite = LastSCN + 2 /\ lst \in 0 .. LastSCN
      /\ passed \in Nat /\ Len(oidList) \in Nat /\ passed <= Len(oidList)
  BY Numbers
<1>2. CASE AddDummy
  <2>1. Dummy \in Item
    BY <1>1 DEF Dummy, Item
  <2>2. oidList' = Append(oidList, Dummy)
    BY <1>2 DEF AddDummy
  <2>3. oidList' \in Seq(Item) /\ Len(oidList') = Len(oidList) + 1
    BY <2>1, <2>2 DEF AgerTypeOK
  <2>4. passed' \in 0 .. Len(oidList')
    BY <2>3, <1>1, <1>2 DEF AddDummy
  <2> QED BY <2>3, <2>4, <1>2 DEF AddDummy, AgerTypeOK, rowVars
<1>3. CASE AgerStart
  BY <1>3 DEF AgerStart, AgerTypeOK, rowVars, listVars
<1>4. CASE AgerScan
  BY <1>4 DEF AgerScan, AgerTypeOK, rowVars, listVars
<1>5. CASE AgerScanned
  BY <1>5 DEF AgerScanned, AgerTypeOK, rowVars, listVars
<1>6. CASE AgerTake
  <2>1. passed' \in 0 .. Len(oidList)
    BY <1>1, <1>6 DEF AgerTake, MayTake
  <2> QED BY <2>1, <1>6 DEF AgerTake, AgerTypeOK, rowVars
<1>7. CASE DeleteIndex
  BY <1>7 DEF DeleteIndex, AgerTypeOK, listVars
<1>8. CASE SetErasable
  <2>1. passed \in 1 .. Len(oidList)
    BY <1>1, <1>8 DEF SetErasable
  <2> DEFINE item == oidList[passed]
             done == [item EXCEPT !.keyFree = KeyFreeSCN(item), !.erasable = TRUE]
  <2>2. item \in Item
    BY <2>1, Numbers
  <2>3. KeyFreeSCN(item) \in Finite \cup {Infinite}
    BY <2>2, <1>1 DEF KeyFreeSCN, Item, Finite, ViewOf
  <2>4. done \in Item
    BY <2>2, <2>3 DEF Item
  <2>5. oidList' = [oidList EXCEPT ![passed] = done]
    BY <1>8 DEF SetErasable
  <2> HIDE DEF done
  <2>6. oidList' \in Seq(Item) /\ Len(oidList') = Len(oidList)
    BY <2>1, <2>4, <2>5 DEF AgerTypeOK
  <2> QED BY <2>6, <1>8 DEF SetErasable, AgerTypeOK, rowVars
<1>9. CASE AgerStop
  BY <1>9 DEF AgerStop, AgerTypeOK, rowVars, listVars
<1> QED BY <1>2, <1>3, <1>4, <1>5, <1>6, <1>7, <1>8, <1>9 DEF AgerStep

\* The steps of the delete thread keep the types: only passed items are freed.
LEMMA DeleterTypes ==
  ASSUME AgerTypeOK, TypeOK', DeleterStep, Erasable => passed > 0
  PROVE  AgerTypeOK'
<1> USE MemAgerAssumption
<1> DEFINE D == [step : {"idle", "head", "scan", "free", "bump"}, upTo : Nat,
                 oldest : Nat \cup {NullTID}, handled : BOOLEAN]
<1>1. /\ LastSCN \in Nat /\ Infinite = LastSCN + 2 /\ lst \in 0 .. LastSCN
      /\ passed \in Nat /\ Len(oidList) \in Nat /\ passed <= Len(oidList)
  BY Numbers
<1>2. deleter \in D /\ DeleterIdle \in D
  BY DEF AgerTypeOK, DeleterIdle
<1>3. CASE DeleterHead
  <2>1. deleter' = [deleter EXCEPT !.step = "head", !.upTo = passed + 1] /\ passed + 1 \in Nat
    BY <1>1, <1>3 DEF DeleterHead
  <2>2. deleter' \in D
    BY <1>2, <2>1
  <2> QED BY <2>2, <1>3 DEF DeleterHead, AgerTypeOK, rowVars, listVars
<1>4. CASE DeleterStart
  BY <1>2, <1>4 DEF DeleterStart, AgerTypeOK, rowVars, listVars
<1>5. CASE DeleterScan
  BY <1>5 DEF DeleterScan, AgerTypeOK, rowVars, listVars
<1>6. CASE DeleterScanned
  <2>1. scan[Deleter] \in Walk /\ mTransID \in [Slots -> Nat]
    BY DEF AgerTypeOK, TypeOK
  <2>2. Taken(Deleter).tid \in Nat \cup {NullTID}
    BY <2>1 DEF Taken, Walk
  <2> QED BY <2>2, <1>2, <1>6 DEF DeleterScanned, AgerTypeOK, rowVars, listVars
<1>7. CASE FreeItem
  <2>1. oidList # <<>> /\ passed > 0
    BY <1>7 DEF FreeItem, IsAgingTarget, Erasable
  <2>2. oidList' \in Seq(Item) /\ Len(oidList') = Len(oidList) - 1
    BY <2>1, <1>7 DEF FreeItem, AgerTypeOK
  <2>3. passed' \in 0 .. Len(oidList')
    BY <1>1, <1>7, <2>1, <2>2 DEF FreeItem
  <2>4. deleter' \in D
    <3>1. PICK b \in BOOLEAN : deleter' = [deleter EXCEPT !.upTo = @ - 1, !.handled = b]
      BY <1>7 DEF FreeItem
    <3>2. deleter.upTo - 1 \in Nat
      BY <1>2, <1>7 DEF FreeItem, IsAgingTarget
    <3> QED BY <1>2, <3>1, <3>2
  <2>5. slot' \in [Versions -> {"free", "used", "freed"}]
    BY <1>7 DEF FreeItem, AgerTypeOK
  <2> QED BY <2>2, <2>3, <2>4, <2>5, <1>7 DEF FreeItem, AgerTypeOK
<1>8. CASE DeleterCommit
  <2>1. deleter' \in D
    BY <1>2, <1>8 DEF DeleterCommit
  <2> QED BY <2>1, <1>8 DEF DeleterCommit, AgerTypeOK, listVars
<1>9. CASE IncreaseSystemSCN
  BY <1>2, <1>9 DEF IncreaseSystemSCN, AgerTypeOK, rowVars, listVars
<1> QED BY <1>3, <1>4, <1>5, <1>6, <1>7, <1>8, <1>9 DEF DeleterStep

\* The statuses go with the steps: nothing is owed outside them.
LEMMA StatusKept ==
  ASSUME AgerTypeOK, \A s \in Slots : StatusInv(s), AgerNext, NEW r \in Slots
  PROVE  StatusInv(r)'
<1>1. StatusInv(r) /\ TypeOK /\ work \in [Slots -> [old : {0} \cup Versions, new : {0} \cup Versions, listed : BOOLEAN]]
  BY DEF AgerTypeOK
<1>2. CASE UNCHANGED <<pc, mStatus, mCommitSCN, work>>
  BY <1>1, <1>2 DEF StatusInv
<1>3. ASSUME NEW s \in Slots, User(s) PROVE StatusInv(r)'
  <2>1. LastSCN \in Nat /\ lst # Infinite
    BY <1>1, ViewSCNAssumption DEF TypeOK, Infinite
  <2>2. CASE \E k \in Stmts, v \in Versions : Reach(s, k, v)
    BY <2>2, <1>2 DEF Reach, viewVars, transVars
  <2>3. CASE \E k \in Stmts : LeaveStmt(s, k)
    BY <2>3, <1>2 DEF LeaveStmt, EndStmt
  <2>4. ASSUME NEW old, NEW new, Change(s, old, new) PROVE StatusInv(r)'
    BY <2>4, <1>1 DEF Change, StatusInv, viewVars, transVars, NoChange
  <2>5. CASE CommitChange(s)
    BY <2>5, <1>1 DEF CommitChange, TakeSCN, Goes, TypeOK, StatusInv, transVars
  <2>6. CASE AddList(s)
    <3>1. work[s] # NoChange /\ pc[s] = "finish"
      BY <2>6 DEF AddList, Obsolete, NoChange
    <3>2. work' = [work EXCEPT ![s] = [work[s] EXCEPT !.listed = TRUE]]
      BY <2>6 DEF AddList
    <3>3. work'[r] # NoChange /\ r # s => work[r] # NoChange /\ work'[r] = work[r]
      BY <3>2, <1>1
    <3>4. UNCHANGED <<pc, mStatus, mCommitSCN>>
      BY <2>6 DEF AddList, viewVars, transVars
    <3>5. CASE r = s
      BY <3>1, <3>4, <3>5, <1>1 DEF StatusInv
    <3>6. CASE r # s
      BY <3>2, <3>4, <3>6, <1>1 DEF StatusInv
    <3> QED BY <3>5, <3>6
  <2>7. CASE SetFinished(s)
    BY <2>7, <1>1 DEF SetFinished, StatusInv, viewVars, transVars, NoChange
  <2>8. CASE EndWork(s)
    BY <2>8, <1>1 DEF EndWork, EndStatus, Goes, TypeOK, StatusInv, NoChange
  <2>9. CASE Otherwise(s)
    BY <2>9, <2>1, <1>1 DEF Otherwise, OpensView, Begin, LockView, GetView, SetView, PreCommit, CommitEmpty, Abort,
       SetCommitSCN, SetCommitStatus, HoldView, NextTID, InitSlot, Goes, TypeOK, StatusInv, transVars
  <2> QED BY <1>3, <2>2, <2>3, <2>4, <2>5, <2>6, <2>7, <2>8, <2>9
      DEF User, UpdateVersion, RemoveVersion, InsertVersion
<1>4. CASE AgerStep
  BY <1>2, <1>4 DEF AgerStep, AddDummy, AgerStart, AgerScan, AgerScanned, AgerTake, DeleteIndex, SetErasable, AgerStop,
     StartScan, PassFlag, ReadMin, TakeMin, EndScan, viewVars, transVars
<1>5. CASE DeleterStep
  BY <1>2, <1>5 DEF DeleterStep, DeleterHead, DeleterStart, DeleterScan, DeleterScanned, FreeItem, DeleterCommit,
     IncreaseSystemSCN, StartScan, PassFlag, ReadMin, TakeMin, EndScan, viewVars, transVars
<1> QED BY <1>3, <1>4, <1>5 DEF AgerNext

\* Only AgerStart and AgerScanned begin and end a walk of the logical ager.
LEMMA WalksKept ==
  ASSUME TypeOK, AgerWalks, AgerNext
  PROVE  AgerWalks'
<1>1. Ager \in Scanners /\ Deleter \in Scanners /\ Ager # Deleter
  BY MemAgerAssumption
<1>2. CASE UNCHANGED <<scan, ager>>
  BY <1>2 DEF AgerWalks
<1>3. ASSUME NEW s \in Slots, User(s) PROVE UNCHANGED <<scan, ager>>
  BY <1>3 DEF User, LeaveStmt, EndStmt, Reach, RemoveVersion, UpdateVersion, InsertVersion, Change, CommitChange,
     TakeSCN, AddList, SetFinished, EndWork, EndStatus, Otherwise, OpensView, Begin, LockView, GetView, SetView,
     PreCommit, CommitEmpty, Abort, SetCommitSCN, SetCommitStatus, HoldView, NextTID, InitSlot, viewVars, scanVars
<1>4. CASE AgerStep
  <2>1. CASE AgerScan
    BY <2>1, <1>1 DEF AgerScan, PassFlag, ReadMin, TakeMin, AgerWalks, TypeOK
  <2>2. CASE AgerStart \/ AgerScanned
    BY <2>2, <1>1 DEF AgerStart, AgerScanned, StartScan, EndScan, AgerWalks, TypeOK, Idle
  <2> QED BY <1>4, <2>1, <2>2 DEF AgerStep, AddDummy, AgerTake, DeleteIndex, SetErasable, AgerStop, AgerWalks,
     viewVars, scanVars
<1>5. CASE DeleterStep
  <2>1. scan'[Ager] = scan[Ager] /\ ager' = ager
    BY <1>1, <1>5 DEF DeleterStep, DeleterHead, DeleterStart, DeleterScan, DeleterScanned, FreeItem, DeleterCommit,
     IncreaseSystemSCN, StartScan, PassFlag, ReadMin, TakeMin, EndScan, TypeOK, viewVars, scanVars
  <2> QED BY <2>1 DEF AgerWalks
<1> QED BY <1>2, <1>3, <1>4, <1>5 DEF AgerNext

-----------------------------------------------------------------------------
(* What the steps keep.                                                    *)

\* A version that is past for every view stays past.
LEMMA PastKept ==
  ASSUME AgerTypeOK, ViewsGoOn, NEW v \in Versions, Past(v), made'[v] = made[v], gone'[v] = gone[v]
  PROVE  Past(v)'
<1>1. TypeOK /\ gone[v] \in Nat
  BY Numbers DEF AgerTypeOK
<1>2. CASE made[v] = Infinite
  BY <1>2 DEF Past
<1>3. CASE made[v] # Infinite
  <2>1. PICK g \in Nat : g = gone[v]
    BY <1>1
  <2>2. g <= ViewOf(lst) /\ \A s \in Slots : Covers(g, s)
    BY <2>1, <1>3 DEF Past
  <2>3. g <= ViewOf(lst)'
    <3>1. 0 \in Slots
      BY ViewSCNAssumption DEF Slots
    <3> QED BY <3>1, <2>2, <1>1, CoverKept
  <2>4. \A s \in Slots : Covers(g, s)'
    BY <2>2, <1>1, CoverKept
  <2>5. gone'[v] = g
    BY <2>1
  <2> QED BY <2>3, <2>4, <2>5 DEF Past, Covers
<1> QED BY <1>2, <1>3

\* RowInv of a version that a step leaves alone.
LEMMA RowKept ==
  ASSUME AgerTypeOK, ViewsGoOn, NEW v \in Versions, RowInv(v),
         made'[v] = made[v], gone'[v] = gone[v], key'[v] = key[v],
         v \in Used' <=> v \in Used, Items(v)' = Items(v),
         \A s \in Slots : v \in Owed(s)' => v \in Owed(s),
         Dead(v) => \A s \in Slots : v \in Owed(s) => v \in Owed(s)'
  PROVE  RowInv(v)'
<1>1. Past(v) => Past(v)'
  BY PastKept
<1>2. Dead(v)' <=> Dead(v)
  BY DEF Dead
<1> QED BY <1>1, <1>2 DEF RowInv

AgerStays == ager' = ager \/ (ager \notin {"keys", "erase"} /\ ager' \notin {"keys", "erase"})

SameItem(x, y) == x.of = y.of /\ x.scn = y.scn /\ x.erasable = y.erasable /\ x.keyFree = y.keyFree

\* Nobody gets a pointer, and the views that go with pointers stay.
HeldShrinks ==
  \A s \in Slots, k \in Stmts :
    held'[s][k] \subseteq held[s][k] /\ (held'[s][k] # {} => view'[s][k] = view[s][k])

\* ItemInv of an item that stays where it is, while nobody gets a pointer.
LEMMA ItemKept ==
  ASSUME AgerTypeOK, ViewsGoOn, HeldShrinks, NEW i \in DOMAIN oidList, ItemInv(i),
         SameItem(oidList[i], oidList'[i]), passed' = passed, Used' = Used,
         UNCHANGED <<made, gone, key>>, AgerStays
  PROVE  ItemInv(i)'
<1> DEFINE V == oidList[i].of
<1>1. V \subseteq Versions
  BY Numbers DEF Item
<1>2. oidList'[i].of = V /\ oidList'[i].scn = oidList[i].scn
  BY DEF SameItem
<1>3. oidList'[i].erasable = oidList[i].erasable /\ oidList'[i].keyFree = oidList[i].keyFree
  BY DEF SameItem
<1>4. KeysGone(i)' <=> KeysGone(i)
  BY DEF KeysGone, AgerStays
<1>5. ASSUME NEW v \in V
      PROVE  /\ v \in Used' /\ Dead(v)'
             /\ made'[v] = Infinite \/ gone'[v] <= oidList'[i].scn
             /\ i <= passed' => Past(v)'
             /\ KeysGone(i)' => ~key'[v]
             /\ oidList'[i].erasable =>
                  \A s \in Slots, k \in Stmts : v \in held'[s][k] => view'[s][k] <= oidList'[i].keyFree
  <2>1. Past(v) => Past(v)'
    BY <1>1, <1>5, PastKept
  <2>2. Dead(v)' <=> Dead(v)
    BY DEF Dead
  <2>3. oidList[i].erasable =>
          \A s \in Slots, k \in Stmts : v \in held'[s][k] => view'[s][k] <= oidList[i].keyFree
    BY <1>5 DEF HeldShrinks, ItemInv
  <2> QED BY <1>2, <1>3, <1>4, <1>5, <2>1, <2>2, <2>3 DEF ItemInv
<1>6. oidList'[i].erasable => i <= passed' /\ (i = passed' => ager' \notin {"keys", "erase"})
  BY <1>3 DEF ItemInv, AgerStays
<1> QED BY <1>2, <1>5, <1>6 DEF ItemInv

\* A step that leaves rows, items and pointers as they are, as far as the agers
\* are concerned.
LEMMA Quiet ==
  ASSUME AgerInv, ViewsGoOn, HeldShrinks, AgerTypeOK', AgerWalks', \A s \in Slots : StatusInv(s)' /\ OwnInv(s)',
         Used' = Used, UNCHANGED <<made, gone, key, passed>>,
         AgerStays,
         \A v \in Versions, s \in Slots :
           /\ v \in Owed(s)' => v \in Owed(s)
           /\ Dead(v) /\ v \in Owed(s) => v \in Owed(s)',
         Len(oidList) <= Len(oidList'),
         \A i \in 1 .. Len(oidList') :
           IF i <= Len(oidList) THEN SameItem(oidList[i], oidList'[i])
           ELSE oidList'[i].of = {} /\ ~oidList'[i].erasable
  PROVE  AgerInv'
<1>1. AgerTypeOK /\ Len(oidList) \in Nat /\ DOMAIN oidList = 1 .. Len(oidList)
  BY DEF AgerInv, AgerTypeOK
<1>2. Len(oidList') \in Nat /\ DOMAIN oidList' = 1 .. Len(oidList')
  BY DEF AgerTypeOK
<1>3. ASSUME NEW v \in Versions PROVE RowInv(v)'
  <2>1. Items(v)' = Items(v)
    BY <1>1, <1>2 DEF Items, SameItem
  <2> QED BY <2>1, <1>1, <1>3, RowKept DEF AgerInv
<1>4. ASSUME NEW i \in DOMAIN oidList' PROVE ItemInv(i)'
  <2>1. CASE i <= Len(oidList)
    BY <2>1, <1>1, <1>2, <1>4, ItemKept DEF AgerInv
  <2>2. CASE ~(i <= Len(oidList))
    BY <2>2, <1>2, <1>4 DEF ItemInv
  <2> QED BY <2>1, <2>2
<1>5. ASSUME NEW s \in Slots PROVE HeldInv(s)'
  BY <1>5 DEF AgerInv, HeldInv, HeldShrinks, Open
<1>6. ager' \in {"keys", "erase"} => passed' > 0
  BY DEF AgerInv, AgerStays
<1> QED BY <1>3, <1>4, <1>5, <1>6 DEF AgerInv

SameCommit(s) == (Committed(s)' <=> Committed(s)) /\ (Committed(s) => SCNOf(s)' = SCNOf(s))

\* What a transaction owes and knows of it depends on its change and on whether it
\* is committed.
LEMMA OwnKept ==
  ASSUME AgerTypeOK, NEW s \in Slots, OwnInv(s), work'[s] = work[s], work[s] = NoChange \/ SameCommit(s),
         \A v \in Versions : v \in {work[s].old, work[s].new} => made'[v] = made[v] /\ gone'[v] = gone[v]
  PROVE  OwnInv(s)' /\ \A v \in Versions : v \in Owed(s)' <=> v \in Owed(s)
<1>1. work[s].old \in {0} \cup Versions /\ work[s].new \in {0} \cup Versions /\ 0 \notin Versions
  BY DEF AgerTypeOK, Versions
<1>2. CASE work[s] = NoChange
  BY <1>1, <1>2 DEF OwnInv, NoChange, Owed
<1>3. CASE SameCommit(s)
  BY <1>1, <1>3 DEF OwnInv, Owed, SameCommit
<1> QED BY <1>2, <1>3

\* A step of the views alone.
LEMMA Calm ==
  ASSUME AgerInv, ViewsGoOn, HeldShrinks, AgerTypeOK', AgerWalks', \A s \in Slots : StatusInv(s)',
         Used' = Used, UNCHANGED <<made, gone, key, work, listVars>>,
         AgerStays,
         \A s \in Slots : work[s] = NoChange \/ SameCommit(s)
  PROVE  AgerInv'
<1>1. AgerTypeOK
  BY DEF AgerInv
<1>2. ASSUME NEW s \in Slots
      PROVE  OwnInv(s)' /\ \A v \in Versions : v \in Owed(s)' <=> v \in Owed(s)
  BY <1>1, <1>2, OwnKept DEF AgerInv
<1>3. UNCHANGED <<oidList, passed>>
  BY DEF listVars
<1>4. \A i \in 1 .. Len(oidList') : i <= Len(oidList) /\ SameItem(oidList[i], oidList'[i])
  BY <1>1, <1>3 DEF SameItem, AgerTypeOK
<1> QED BY <1>2, <1>3, <1>4, Quiet

\* The slots of a transaction as it goes from statement to statement and to its end.
LEMMA OtherwiseKept ==
  ASSUME VInv, AgerInv, ViewsGoOn, AgerTypeOK', AgerWalks', \A s \in Slots : StatusInv(s)', NEW s \in Slots, Otherwise(s)
  PROVE  AgerInv'
<1>1. AgerTypeOK /\ TypeOK /\ UNCHANGED <<slot, made, gone, key, held, work, listVars, ager>>
  BY DEF AgerInv, AgerTypeOK, Otherwise, rowVars
<1>2. ASSUME NEW r \in Slots PROVE work[r] = NoChange \/ SameCommit(r)
  <2>1. StatusInv(r)
    BY DEF AgerInv
  <2> QED BY <2>1, <1>1 DEF Otherwise, OpensView, Begin, LockView, GetView, SetView, PreCommit, CommitEmpty, Abort,
       SetCommitSCN, SetCommitStatus, HoldView, NextTID, InitSlot, Goes, TypeOK, StatusInv, transVars,
       SameCommit, Committed, SCNOf
<1>3. HeldShrinks
  <2>1. ASSUME NEW r \in Slots, NEW k \in Stmts, held'[r][k] # {} PROVE view'[r][k] = view[r][k]
    <3>1. k \in Open(r)
      BY <1>1, <2>1 DEF AgerInv, HeldInv
    <3>2. CASE UNCHANGED view
      BY <3>2
    <3>3. ASSUME NEW j \in Stmts, SetView(s, j) PROVE view'[r][k] = view[r][k]
      BY <3>1, <3>3, <1>1 DEF SetView, TypeOK, Open
    <3> QED BY <3>2, <3>3 DEF Otherwise, OpensView, Begin, LockView, GetView, PreCommit, CommitEmpty, Abort,
       SetCommitSCN, SetCommitStatus, HoldView, NextTID, InitSlot, stmtVars
  <2> QED BY <2>1, <1>1 DEF HeldShrinks
<1>4. Used' = Used
  BY <1>1 DEF Used
<1>5. AgerStays
  BY <1>1 DEF AgerStays
<1> QED BY <1>1, <1>2, <1>3, <1>4, <1>5, Calm

\* Steps of the two threads that look at the views only.
LEMMA WalkKept ==
  ASSUME VInv, AgerInv, ViewsGoOn, AgerTypeOK', AgerWalks', \A s \in Slots : StatusInv(s)',
         \/ AgerStart \/ AgerScan \/ AgerScanned \/ AgerStop
         \/ DeleterHead \/ DeleterStart \/ DeleterScan \/ DeleterScanned \/ DeleterCommit \/ IncreaseSystemSCN
  PROVE  AgerInv'
<1>1. AgerTypeOK
  BY DEF AgerInv
<1>2. UNCHANGED <<made, gone, key, held, work, listVars, pc, scn, mStatus, mCommitSCN, view>>
  BY DEF AgerStart, AgerScan, AgerScanned, AgerStop, DeleterHead, DeleterStart, DeleterScan, DeleterScanned,
     DeleterCommit, IncreaseSystemSCN, StartScan, PassFlag, ReadMin, TakeMin, EndScan, rowVars, viewVars, transVars,
     stmtVars
<1>3. Used' = Used
  <2>1. CASE DeleterCommit
    BY <2>1, <1>1 DEF DeleterCommit, Used, AgerTypeOK
  <2>2. CASE UNCHANGED slot
    BY <2>2 DEF Used
  <2> QED BY <2>1, <2>2 DEF AgerStart, AgerScan, AgerScanned, AgerStop, DeleterHead, DeleterStart, DeleterScan,
     DeleterScanned, IncreaseSystemSCN, rowVars
<1>4. AgerStays
  <2>1. CASE AgerScanned
    <3>1. ager = "scan"
      BY <2>1 DEF AgerScanned, EndScan, AgerInv, AgerWalks
    <3> QED BY <2>1, <3>1 DEF AgerScanned, AgerStays
  <2> QED BY <2>1 DEF AgerStays, AgerStart, AgerScan, AgerStop, DeleterHead, DeleterStart, DeleterScan,
     DeleterScanned, DeleterCommit, IncreaseSystemSCN
<1>5. HeldShrinks
  BY <1>2 DEF HeldShrinks
<1>6. \A s \in Slots : SameCommit(s)
  BY <1>2 DEF SameCommit, Committed, SCNOf
<1> QED BY <1>2, <1>3, <1>4, <1>5, <1>6, Calm

\* The end of a statement drops its pointers and its view.
LEMMA LeaveStmtKept ==
  ASSUME VInv, AgerInv, ViewsGoOn, AgerTypeOK', AgerWalks', \A s \in Slots : StatusInv(s)',
         NEW s \in Slots, NEW k \in Stmts, LeaveStmt(s, k)
  PROVE  AgerInv'
<1>1. AgerTypeOK /\ TypeOK /\ UNCHANGED <<slot, made, gone, key, work, listVars, ager, pc, scn, mStatus, mCommitSCN>>
  BY DEF AgerInv, AgerTypeOK, LeaveStmt, EndStmt
<1>2. \A r \in Slots : SameCommit(r)
  BY <1>1 DEF SameCommit, Committed, SCNOf
<1>3. HeldShrinks
  <2>1. held' = [held EXCEPT ![s][k] = {}] /\ view' = [view EXCEPT ![s][k] = 0]
    BY DEF LeaveStmt, EndStmt
  <2>2. held \in [Slots -> [Stmts -> SUBSET Versions]] /\ view \in [Slots -> [Stmts -> Finite]]
    BY <1>1 DEF AgerTypeOK, TypeOK
  <2>3. ASSUME NEW r \in Slots, NEW j \in Stmts
        PROVE  /\ held'[r][j] = IF r = s /\ j = k THEN {} ELSE held[r][j]
               /\ view'[r][j] = IF r = s /\ j = k THEN 0 ELSE view[r][j]
    BY <2>1, <2>2
  <2> QED BY <2>3 DEF HeldShrinks
<1>4. Used' = Used /\ AgerStays
  BY <1>1 DEF Used, AgerStays
<1> QED BY <1>1, <1>2, <1>3, <1>4, Calm

\* A dummy item has no versions (addDummyOID).
LEMMA AddDummyKept ==
  ASSUME VInv, AgerInv, ViewsGoOn, AgerTypeOK', AgerWalks', \A s \in Slots : StatusInv(s)', AddDummy
  PROVE  AgerInv'
<1>1. /\ AgerTypeOK /\ oidList' = Append(oidList, Dummy) /\ oidList \in Seq(Item)
      /\ UNCHANGED <<slot, made, gone, key, held, work, passed, ager, pc, scn, mStatus, mCommitSCN, view>>
  BY DEF AgerInv, AgerTypeOK, AddDummy, viewVars, transVars, stmtVars, rowVars
<1>2. \A s \in Slots : SameCommit(s)
  BY <1>1 DEF SameCommit, Committed, SCNOf
<1>3. ASSUME NEW s \in Slots
      PROVE  OwnInv(s)' /\ \A v \in Versions : v \in Owed(s)' <=> v \in Owed(s)
  BY <1>1, <1>2, <1>3, OwnKept DEF AgerInv
<1>4. Used' = Used /\ AgerStays /\ HeldShrinks
  BY <1>1 DEF Used, AgerStays, HeldShrinks
<1>5. Len(oidList') = Len(oidList) + 1 /\ Len(oidList) \in Nat
  BY <1>1
<1>6. ASSUME NEW i \in 1 .. Len(oidList')
      PROVE  IF i <= Len(oidList) THEN SameItem(oidList[i], oidList'[i])
             ELSE oidList'[i].of = {} /\ ~oidList'[i].erasable
  <2>1. CASE i <= Len(oidList)
    BY <1>1, <1>5, <1>6, <2>1 DEF SameItem
  <2>2. CASE ~(i <= Len(oidList))
    <3>1. oidList'[i] = Dummy
      BY <1>1, <1>5, <1>6, <2>2
    <3> QED BY <3>1, <2>2 DEF Dummy
  <2> QED BY <2>1, <2>2
<1>7. Len(oidList) <= Len(oidList')
  BY <1>5
<1> QED BY <1>1, <1>3, <1>4, <1>6, <1>7, Quiet

\* The transaction is done with an item that it has handed over.
LEMMA SetFinishedKept ==
  ASSUME VInv, AgerInv, ViewsGoOn, AgerTypeOK', AgerWalks', \A s \in Slots : StatusInv(s)',
         NEW s \in Slots, SetFinished(s)
  PROVE  AgerInv'
<1>1. /\ AgerTypeOK /\ oidList \in Seq(Item) /\ work' = [work EXCEPT ![s] = NoChange] /\ work[s].listed
      /\ UNCHANGED <<slot, made, gone, key, held, passed, ager, pc, scn, mStatus, mCommitSCN, view>>
  BY DEF AgerInv, AgerTypeOK, SetFinished, viewVars, transVars, stmtVars, rowVars
<1>2. \A r \in Slots : SameCommit(r)
  BY <1>1 DEF SameCommit, Committed, SCNOf
<1>3. ASSUME NEW r \in Slots
      PROVE  OwnInv(r)' /\ \A v \in Versions : v \in Owed(r)' <=> v \in Owed(r)
  <2>1. CASE r = s
    <3>1. work'[r] = NoChange /\ 0 \notin Versions
      BY <1>1, <2>1 DEF AgerTypeOK, Versions
    <3> QED BY <3>1, <1>1, <2>1 DEF OwnInv, Owed, NoChange
  <2>2. CASE r # s
    <3>1. work'[r] = work[r]
      BY <1>1, <2>2
    <3> QED BY <3>1, <1>1, <1>2, <1>3, OwnKept DEF AgerInv
  <2> QED BY <2>1, <2>2
<1>4. Used' = Used /\ AgerStays /\ HeldShrinks
  BY <1>1 DEF Used, AgerStays, HeldShrinks
<1>5. PICK i \in DOMAIN oidList : oidList' = [oidList EXCEPT ![i] = [oidList[i] EXCEPT !.finished = TRUE]]
  BY DEF SetFinished
<1>6. Len(oidList') = Len(oidList) /\ Len(oidList) \in Nat
  BY <1>1, <1>5
<1>7. ASSUME NEW j \in 1 .. Len(oidList') PROVE j <= Len(oidList) /\ SameItem(oidList[j], oidList'[j])
  <2>1. oidList[j] \in Item /\ j \in DOMAIN oidList
    BY <1>1, <1>6, <1>7
  <2>2. CASE j = i
    <3>1. oidList'[j] = [oidList[j] EXCEPT !.finished = TRUE]
      BY <1>5, <2>2
    <3> QED BY <3>1, <2>1, <1>6, <1>7 DEF SameItem, Item
  <2>3. CASE j # i
    BY <1>5, <1>6, <1>7, <2>1, <2>3 DEF SameItem
  <2> QED BY <2>2, <2>3
<1>8. Len(oidList) <= Len(oidList')
  BY <1>6
<1> QED BY <1>1, <1>3, <1>4, <1>7, <1>8, Quiet

\* The end of a transaction with nothing left to hand over: what it still holds is alive.
LEMMA EndWorkKept ==
  ASSUME VInv, AgerInv, ViewsGoOn, AgerTypeOK', AgerWalks', \A s \in Slots : StatusInv(s)',
         NEW s \in Slots, EndWork(s)
  PROVE  AgerInv'
<1>1. /\ AgerTypeOK /\ TypeOK /\ work' = [work EXCEPT ![s] = NoChange] /\ pc[s] = "finish" /\ Obsolete(s) = {}
      /\ UNCHANGED <<slot, made, gone, key, held, oidList, passed, ager, scn, mCommitSCN, view>>
      /\ pc' = [pc EXCEPT ![s] = "ended"] /\ \A r \in Slots \ {s} : mStatus'[r] = mStatus[r]
  BY DEF AgerInv, AgerTypeOK, TypeOK, EndWork, EndStatus, Goes, rowVars, listVars, scanVars
<1>2. 0 \notin Versions
  BY DEF Versions
<1>3. ASSUME NEW r \in Slots
      PROVE  /\ OwnInv(r)'
             /\ \A v \in Versions : /\ v \in Owed(r)' => v \in Owed(r)
                                    /\ Dead(v) /\ v \in Owed(r) => v \in Owed(r)'
  <2>1. CASE r = s
    <3>1. work'[r] = NoChange
      BY <1>1, <2>1 DEF AgerTypeOK
    <3>2. ASSUME NEW v \in Versions, v \in Owed(s) PROVE ~Dead(v)
      <4>1. StatusInv(s) /\ OwnInv(s)
        BY DEF AgerInv
      <4>2. CASE mStatus[s] = "COMMIT"
        <5>1. work[s].old = 0
          BY <1>1, <4>2 DEF Obsolete
        <5> QED BY <5>1, <1>2, <3>2, <4>2 DEF Owed, Committed
      <4>3. CASE mStatus[s] # "COMMIT"
        <5>1. work[s].new = 0 /\ ~Committed(s)
          BY <1>1, <4>3 DEF Obsolete, Committed
        <5> QED BY <5>1, <1>2, <3>2, <4>1 DEF Owed, OwnInv, Dead
      <4> QED BY <4>2, <4>3
    <3> QED BY <3>1, <3>2, <1>2, <2>1 DEF OwnInv, Owed, NoChange
  <2>2. CASE r # s
    <3>1. work'[r] = work[r] /\ SameCommit(r)
      BY <1>1, <2>2 DEF AgerTypeOK, TypeOK, SameCommit, Committed, SCNOf
    <3> QED BY <3>1, <1>1, <1>3, OwnKept DEF AgerInv
  <2> QED BY <2>1, <2>2
<1>4. Used' = Used /\ AgerStays /\ HeldShrinks
  BY <1>1 DEF Used, AgerStays, HeldShrinks
<1>5. \A i \in 1 .. Len(oidList') : i <= Len(oidList) /\ SameItem(oidList[i], oidList'[i])
  BY <1>1 DEF SameItem, AgerTypeOK
<1>6. Len(oidList) <= Len(oidList')
  BY <1>1 DEF AgerTypeOK
<1> QED BY <1>1, <1>3, <1>4, <1>5, <1>6, Quiet

\* While the views stand still, a transaction's change and the rows decide.
LEMMA Still ==
  ASSUME UNCHANGED viewVars
  PROVE  /\ \A s \in Slots : SameCommit(s)
         /\ \A v \in Versions : made'[v] = made[v] /\ gone'[v] = gone[v] => (Past(v)' <=> Past(v))
         /\ \A s \in Slots, k \in Stmts : view'[s][k] = view[s][k]
         /\ \A s \in Slots : Open(s)' = Open(s)
         /\ UNCHANGED <<pc, mStatus, mCommitSCN, scn, lst, view>>
<1>1. UNCHANGED <<pc, mStatus, mCommitSCN, scn, lst, view>>
  BY DEF viewVars, transVars, stmtVars
<1>2. \A m, s : Covers(m, s)' <=> Covers(m, s)
  BY <1>1 DEF Covers, Open
<1> QED BY <1>1, <1>2 DEF SameCommit, Committed, SCNOf, Past, ViewOf, Open

\* What is known of an item of the list.
LEMMA ItemFacts ==
  ASSUME AgerInv, NEW i \in DOMAIN oidList
  PROVE  /\ ItemInv(i) /\ oidList[i] \in Item /\ oidList[i].of \subseteq Versions
         /\ DOMAIN oidList = 1 .. Len(oidList) /\ Len(oidList) \in Nat
         /\ i \in Nat /\ 0 < i /\ i <= Len(oidList) /\ passed \in Nat /\ passed <= Len(oidList)
         /\ oidList[i].erasable => KeysGone(i)
<1>1. AgerTypeOK /\ ItemInv(i)
  BY DEF AgerInv
<1>2. DOMAIN oidList = 1 .. Len(oidList) /\ Len(oidList) \in Nat /\ passed \in Nat /\ passed <= Len(oidList)
  BY <1>1 DEF AgerTypeOK
<1>3. i \in Nat /\ 0 < i /\ i <= Len(oidList)
  BY <1>2
<1>4. oidList[i] \in Item
  BY <1>1, <1>2, Numbers
<1>5. oidList[i].of \subseteq Versions
  BY <1>4 DEF Item
<1>6. oidList[i].erasable => KeysGone(i)
  BY <1>1, <1>2, <1>3 DEF ItemInv, KeysGone
<1> QED BY <1>1, <1>2, <1>3, <1>4, <1>5, <1>6

\* A pointer comes from a key, and the item of a version with a key is not erasable yet.
LEMMA ReachKept ==
  ASSUME VInv, AgerInv, ViewsGoOn, AgerTypeOK', AgerWalks', \A s \in Slots : StatusInv(s)',
         NEW s \in Slots, NEW k \in Stmts, NEW v \in Versions, Reach(s, k, v)
  PROVE  AgerInv'
<1>1. /\ AgerTypeOK /\ key[v] /\ k \in Open(s) /\ held' = [held EXCEPT ![s][k] = @ \cup {v}]
      /\ UNCHANGED <<viewVars, slot, made, gone, key, work, oidList, passed, ager>>
  BY DEF AgerInv, Reach, listVars
<1>2. ASSUME NEW r \in Slots, NEW j \in Stmts
      PROVE  held'[r][j] = IF r = s /\ j = k THEN held[r][j] \cup {v} ELSE held[r][j]
  BY <1>1 DEF AgerTypeOK
<1>3. \A r \in Slots : OwnInv(r)' /\ \A w \in Versions : w \in Owed(r)' <=> w \in Owed(r)
  BY <1>1, Still, OwnKept DEF AgerInv
<1>4. Used' = Used
  BY <1>1 DEF Used
<1>5. ASSUME NEW w \in Versions PROVE RowInv(w)'
  <2>1. Items(w)' = Items(w)
    BY <1>1 DEF Items
  <2> QED BY <2>1, <1>1, <1>3, <1>4, <1>5, RowKept DEF AgerInv
<1>6. ASSUME NEW r \in Slots PROVE HeldInv(r)'
  <2>1. v \in Used
    BY <1>1 DEF AgerInv, RowInv
  <2> QED BY <2>1, <1>1, <1>2, <1>4, <1>6, Still DEF AgerInv, HeldInv
<1>7. ASSUME NEW i \in DOMAIN oidList PROVE ItemInv(i)'
  <2>1. ItemInv(i) /\ oidList[i].of \subseteq Versions
    BY <1>7, ItemFacts
  <2>2. oidList[i].erasable => v \notin oidList[i].of
    BY <1>7, <1>1, ItemFacts DEF ItemInv
  <2>3. ASSUME NEW w \in oidList[i].of, oidList[i].erasable, NEW r \in Slots, NEW j \in Stmts, w \in held'[r][j]
        PROVE  view'[r][j] <= oidList[i].keyFree
    <3>1. w \in held[r][j]
      BY <2>2, <2>3, <1>2
    <3> QED BY <3>1, <2>1, <2>3, <1>1, Still DEF ItemInv
  <2>4. ASSUME NEW w \in oidList[i].of PROVE Past(w)' <=> Past(w)
    BY <2>1, <2>4, <1>1, Still
  <2> QED BY <2>1, <2>3, <2>4, <1>1, <1>4 DEF ItemInv, KeysGone, Dead
<1> QED BY <1>1, <1>3, <1>5, <1>6, <1>7 DEF AgerInv

\* What a transaction may change: a version that is alive, in no item and owed by none.
LEMMA TargetFree ==
  ASSUME VInv, AgerInv, NEW s \in Slots, NEW k \in Stmts, NEW v \in Versions, Target(s, k, v)
  PROVE  /\ v \in Used /\ key[v] /\ made[v] # Infinite /\ gone[v] = Infinite
         /\ Items(v) = {} /\ \A t \in Slots : v \notin Owed(t)
<1>1. AgerTypeOK /\ RowInv(v) /\ k \in Open(s)
  BY DEF AgerInv, Target
<1>2. /\ LastSCN \in Nat /\ Infinite = LastSCN + 2 /\ lst \in 0 .. LastSCN
      /\ made[v] \in Nat /\ view[s][k] \in 0 .. LastSCN + 1
  BY <1>1, Numbers
<1>3. v \in Used /\ made[v] # Infinite /\ gone[v] = Infinite
  BY <1>2 DEF Target
<1>4. key[v]
  <2>1. ~Past(v)
    <3>1. ~(Infinite <= lst + 1)
      BY <1>2
    <3> QED BY <3>1, <1>3 DEF Past, ViewOf
  <2> QED BY <2>1, <1>1 DEF RowInv, AgerTypeOK
<1>5. Items(v) = {}
  <2>1. ASSUME NEW i \in DOMAIN oidList, v \in oidList[i].of PROVE Dead(v)
    BY <2>1 DEF AgerInv, ItemInv
  <2> QED BY <2>1, <1>3 DEF Items, Dead
<1>6. ASSUME NEW t \in Slots, v \in Owed(t) PROVE FALSE
  <2>1. work[t].old # v
    BY DEF Target
  <2>2. ~Committed(t) /\ ~work[t].listed /\ work[t].new = v
    BY <2>1, <1>6 DEF Owed
  <2>3. v # 0
    BY DEF Versions
  <2> QED BY <2>2, <2>3, <1>3 DEF AgerInv, OwnInv
<1> QED BY <1>3, <1>4, <1>5, <1>6

\* A change takes over a version that is alive and, into a slot that is free, puts
\* the one that will replace it.
LEMMA ChangeKept ==
  ASSUME VInv, AgerInv, ViewsGoOn, AgerTypeOK', AgerWalks', \A s \in Slots : StatusInv(s)',
         NEW s \in Slots, NEW old \in {0} \cup Versions, NEW new \in {0} \cup Versions, Change(s, old, new),
         old # 0 => /\ old \in Used /\ key[old] /\ made[old] # Infinite /\ gone[old] = Infinite
                    /\ Items(old) = {} /\ \A t \in Slots : old \notin Owed(t),
         IF new = 0 THEN UNCHANGED <<slot, made, gone, key>> ELSE Fill(new)
  PROVE  AgerInv'
<1>1. /\ AgerTypeOK /\ pc[s] = "run" /\ work[s] = NoChange
      /\ work' = [work EXCEPT ![s].old = old, ![s].new = new]
      /\ UNCHANGED <<viewVars, held, oidList, passed, ager>>
  BY DEF AgerInv, Change, listVars
<1>2. 0 \notin Versions /\ DOMAIN oidList = DOMAIN oidList'
  BY <1>1 DEF Versions
<1>3. work'[s].old = old /\ work'[s].new = new /\ ~work'[s].listed
  BY <1>1 DEF AgerTypeOK, NoChange
<1>4. ASSUME NEW r \in Slots, r # s PROVE work'[r] = work[r]
  BY <1>1, <1>4 DEF AgerTypeOK
<1>5. ~Committed(s) /\ ~Committed(s)'
  <2>1. mStatus[s] = "BEGIN"
    BY <1>1 DEF AgerInv, StatusInv
  <2> QED BY <2>1, <1>1, Still DEF Committed
<1>6. /\ \A v \in Versions : v \notin Owed(s)
      /\ \A v \in Versions : v \in Owed(s)' <=> v \in {old, new}
  BY <1>1, <1>2, <1>3, <1>5 DEF Owed, NoChange
<1>7. ASSUME NEW v \in Versions, v # new PROVE /\ made'[v] = made[v] /\ gone'[v] = gone[v] /\ key'[v] = key[v]
                                               /\ v \in Used' <=> v \in Used
  BY <1>7, <1>1 DEF Fill, AgerTypeOK, Used
<1>8. new # 0 => /\ new \in Versions /\ new \notin Used /\ new \in Used'
                 /\ made'[new] = Infinite /\ gone'[new] = Infinite /\ key'[new]
  BY <1>1 DEF Fill, AgerTypeOK, Used
<1>9. new # 0 => /\ new # old /\ Items(new) = {} /\ \A t \in Slots : new \notin Owed(t)
                 /\ \A t \in Slots, k \in Stmts : new \notin held[t][k]
  <2>1. ASSUME new # 0, NEW i \in DOMAIN oidList, new \in oidList[i].of PROVE FALSE
    BY <2>1, <1>8 DEF AgerInv, ItemInv
  <2>2. ASSUME new # 0, NEW t \in Slots, new \in Owed(t) PROVE FALSE
    BY <2>2, <1>8 DEF AgerInv, RowInv
  <2>3. ASSUME new # 0, NEW t \in Slots, NEW k \in Stmts, new \in held[t][k] PROVE FALSE
    BY <2>3, <1>8 DEF AgerInv, HeldInv
  <2> QED BY <2>1, <2>2, <2>3, <1>8 DEF Items
<1>10. ASSUME NEW r \in Slots, r # s
       PROVE  OwnInv(r)' /\ \A v \in Versions : v \in Owed(r)' <=> v \in Owed(r)
  <2>1. OwnInv(r) /\ SameCommit(r) /\ work'[r] = work[r]
    BY <1>1, <1>4, <1>10, Still DEF AgerInv
  <2>2. CASE work[r].listed
    BY <2>1, <2>2 DEF OwnInv, Owed
  <2>3. CASE ~work[r].listed
    <3>1. work[r].old \in {0} \cup Versions /\ work[r].new \in {0} \cup Versions
      BY <1>1 DEF AgerTypeOK
    <3>2. work[r].old # new \/ work[r].old = 0
      BY <1>9, <2>3 DEF Owed
    <3>3. ~Committed(r) => work[r].new # new \/ work[r].new = 0
      BY <1>9, <2>3 DEF Owed
    <3>4. work[r].old # 0 => made'[work[r].old] = made[work[r].old] /\ gone'[work[r].old] = gone[work[r].old]
      BY <3>1, <3>2, <1>7
    <3>5. work[r].new # 0 /\ ~Committed(r) =>
            made'[work[r].new] = made[work[r].new] /\ gone'[work[r].new] = gone[work[r].new]
      BY <3>1, <3>3, <1>7
    <3> QED BY <2>1, <3>4, <3>5 DEF OwnInv, Owed, SameCommit
  <2> QED BY <2>2, <2>3
<1>11. OwnInv(s)'
  <2>1. old # 0 => made'[old] # Infinite /\ gone'[old] = Infinite
    BY <1>7, <1>9
  <2> QED BY <2>1, <1>3, <1>5, <1>8, <1>9 DEF OwnInv
<1>12. ASSUME NEW v \in Versions, v # new PROVE RowInv(v)'
  <2>1. RowInv(v) /\ Items(v)' = Items(v)
    BY <1>1 DEF AgerInv, Items
  <2>2. CASE v # old
    <3>1. \A t \in Slots : v \in Owed(t)' <=> v \in Owed(t)
      BY <1>6, <1>10, <1>12, <2>2
    <3> QED BY <2>1, <3>1, <1>1, <1>7, <1>12, RowKept
  <2>3. CASE v = old
    <3>1. \A t \in Slots : v \in Owed(t)' <=> t = s
      BY <1>2, <1>6, <1>10, <2>3
    <3>2. v \in Used' /\ key'[v] /\ Items(v)' = {}
      BY <2>1, <2>3, <1>2, <1>7, <1>12
    <3> QED BY <3>1, <3>2 DEF RowInv
  <2> QED BY <2>2, <2>3
<1>13. ASSUME new # 0 PROVE RowInv(new)'
  <2>1. \A t \in Slots : new \in Owed(t)' <=> t = s
    BY <1>6, <1>8, <1>9, <1>10, <1>13
  <2>2. Items(new)' = {}
    BY <1>1, <1>9, <1>13 DEF Items
  <2> QED BY <2>1, <2>2, <1>8, <1>13 DEF RowInv
<1>14. ASSUME NEW i \in DOMAIN oidList PROVE ItemInv(i)'
  <2>1. ItemInv(i) /\ oidList[i].of \subseteq Versions
    BY <1>14, ItemFacts
  <2>2. ASSUME NEW v \in oidList[i].of PROVE v # new /\ v \in Versions
    BY <2>1, <2>2, <1>2, <1>9, <1>14 DEF Items
  <2>3. ASSUME NEW v \in oidList[i].of PROVE Past(v)' <=> Past(v)
    BY <2>2, <2>3, <1>1, <1>7, Still
  <2>4. ASSUME NEW v \in oidList[i].of
        PROVE  made'[v] = made[v] /\ gone'[v] = gone[v] /\ key'[v] = key[v] /\ (v \in Used' <=> v \in Used)
    BY <2>2, <2>4, <1>7
  <2> QED BY <2>1, <2>3, <2>4, <1>1, Still DEF ItemInv, KeysGone, Dead
<1>15. ASSUME NEW r \in Slots PROVE HeldInv(r)'
  <2>1. ASSUME NEW k \in Stmts, NEW v \in held[r][k] PROVE v \in Used'
    <3>1. v \in Used /\ v \in Versions
      BY <1>15, <2>1 DEF AgerInv, HeldInv, Used
    <3> QED BY <3>1, <1>2, <1>7, <1>8
  <2> QED BY <2>1, <1>1, <1>15, Still DEF AgerInv, HeldInv
<1>16. \A v \in Versions : RowInv(v)'
  BY <1>2, <1>12, <1>13
<1> QED BY <1>1, <1>2, <1>10, <1>11, <1>14, <1>15, <1>16 DEF AgerInv

\* A commit decides the new version and ends the old one, with its SCN.
LEMMA CommitChangeKept ==
  ASSUME VInv, AgerInv, ViewsGoOn, AgerTypeOK', AgerWalks', \A s \in Slots : StatusInv(s)',
         NEW s \in Slots, CommitChange(s)
  PROVE  AgerInv'
<1> DEFINE old == work[s].old
           new == work[s].new
           c == lst + 2
<1>1. /\ AgerTypeOK /\ TypeOK /\ pc[s] = "precommit" /\ mStatus[s] = "PRECOMMIT" /\ ~work[s].listed
      /\ pc' = [pc EXCEPT ![s] = "taken"] /\ scn' = [scn EXCEPT ![s] = c] /\ c <= LastSCN
      /\ UNCHANGED <<mStatus, mCommitSCN, view, slot, key, held, work, oidList, passed, ager>>
  BY DEF AgerInv, AgerTypeOK, StatusInv, CommitChange, TakeSCN, Goes, transVars, stmtVars, listVars
<1>2. /\ LastSCN \in Nat /\ Infinite = LastSCN + 2 /\ lst \in 0 .. LastSCN /\ c # Infinite /\ 0 \notin Versions
      /\ old \in {0} \cup Versions /\ new \in {0} \cup Versions
  BY <1>1, Numbers DEF AgerTypeOK, Versions
<1>3. ~Committed(s) /\ Committed(s)' /\ SCNOf(s)' = c
  BY <1>1 DEF TypeOK, Committed, SCNOf
<1>4. ASSUME NEW v \in Versions
      PROVE  /\ made'[v] = IF v = new THEN c ELSE made[v]
             /\ gone'[v] = IF v = old THEN c ELSE gone[v]
  BY <1>4 DEF CommitChange, Put, AgerInv, AgerTypeOK
<1>5. \A v \in Versions : v \in Owed(s) <=> v \in {old, new}
  BY <1>1, <1>2, <1>3 DEF Owed
<1>6. \A v \in Versions : v \in Owed(s)' <=> v = old
  BY <1>1, <1>2, <1>3 DEF Owed
<1>7. new # 0 => new # old /\ made[new] = Infinite /\ gone[new] = Infinite
  BY <1>1, <1>3 DEF AgerInv, OwnInv
<1>8. old # 0 => made[old] # Infinite
  BY <1>1, <1>3 DEF AgerInv, OwnInv
<1>9. OwnInv(s)'
  BY <1>1, <1>2, <1>3, <1>4, <1>7 DEF OwnInv
<1>10. ASSUME NEW r \in Slots, r # s
       PROVE  OwnInv(r)' /\ \A v \in Versions : v \in Owed(r)' <=> v \in Owed(r)
  <2>1. OwnInv(r) /\ work'[r] = work[r] /\ SameCommit(r)
    BY <1>1, <1>10 DEF AgerInv, TypeOK, SameCommit, Committed, SCNOf
  <2>2. CASE work[r].listed
    BY <2>1, <2>2 DEF OwnInv, Owed
  <2>3. CASE ~work[r].listed
    <3>1. work[r].old \in {0} \cup Versions /\ work[r].new \in {0} \cup Versions
      BY <1>1 DEF AgerTypeOK
    <3>2. work[r].old # 0 => work[r].old \notin {old, new}
      <4>1. work[r].old # 0 => work[r].old \in Owed(r)
        BY <2>3 DEF Owed
      <4> QED BY <4>1, <3>1, <1>5, <1>10 DEF AgerInv, RowInv
    <3>3. work[r].new # 0 /\ ~Committed(r) => work[r].new \notin {old, new}
      <4>1. ~Committed(r) => work[r].new \in Owed(r)
        BY <2>3 DEF Owed
      <4> QED BY <4>1, <3>1, <1>5, <1>10 DEF AgerInv, RowInv
    <3>4. work[r].old # 0 => made'[work[r].old] = made[work[r].old] /\ gone'[work[r].old] = gone[work[r].old]
      BY <3>1, <3>2, <1>4
    <3>5. work[r].new # 0 /\ ~Committed(r) =>
            made'[work[r].new] = made[work[r].new] /\ gone'[work[r].new] = gone[work[r].new]
      BY <3>1, <3>3, <1>4
    <3> QED BY <2>1, <3>4, <3>5 DEF OwnInv, Owed, SameCommit
  <2> QED BY <2>2, <2>3
<1>11. ASSUME NEW v \in Versions PROVE RowInv(v)'
  <2>1. RowInv(v) /\ Items(v)' = Items(v) /\ (v \in Used' <=> v \in Used)
    BY <1>1 DEF AgerInv, Items, Used
  <2>2. CASE v \notin {old, new}
    BY <2>1, <2>2, <1>1, <1>4, <1>5, <1>6, <1>10, <1>11, RowKept
  <2>3. CASE v \in {old, new}
    <3>1. key[v] /\ v \in Used /\ Items(v) = {} /\ \A t \in Slots : v \in Owed(t) => t = s
      BY <2>1, <2>3, <1>5, <1>11 DEF RowInv
    <3>2. \A t \in Slots : v \in Owed(t)' => t = s
      BY <3>1, <1>10
    <3>3. v = old => v \in Owed(s)'
      BY <1>6, <1>11
    <3>4. v = new => ~Dead(v)'
      BY <1>2, <1>4, <1>7, <1>11 DEF Dead
    <3> QED BY <2>1, <2>3, <3>1, <3>2, <3>3, <3>4, <1>1 DEF RowInv
  <2> QED BY <2>2, <2>3
<1>12. ASSUME NEW i \in DOMAIN oidList PROVE ItemInv(i)'
  <2>1. ItemInv(i) /\ oidList[i].of \subseteq Versions
    BY <1>12, ItemFacts
  <2>2. ASSUME NEW v \in oidList[i].of PROVE made'[v] = made[v] /\ gone'[v] = gone[v]
    <3>1. v \in Versions /\ i \in Items(v)
      BY <2>1, <2>2, <1>12 DEF Items
    <3>2. v \notin Owed(s)
      BY <3>1 DEF AgerInv, RowInv
    <3> QED BY <3>1, <3>2, <1>4, <1>5
  <2>3. ASSUME NEW v \in oidList[i].of PROVE Past(v) => Past(v)'
    BY <2>1, <2>2, <2>3, <1>1, PastKept
  <2> QED BY <2>1, <2>2, <2>3, <1>1 DEF ItemInv, KeysGone, Dead, Used
<1>13. ASSUME NEW r \in Slots PROVE HeldInv(r)'
  BY <1>1, <1>13 DEF AgerInv, HeldInv, Open, Used
<1> QED BY <1>1, <1>9, <1>10, <1>11, <1>12, <1>13 DEF AgerInv

\* A version that is handed over passes from its transaction to one item of the list.
LEMMA AddListKept ==
  ASSUME VInv, AgerInv, ViewsGoOn, AgerTypeOK', AgerWalks', \A s \in Slots : StatusInv(s)',
         NEW s \in Slots, AddList(s)
  PROVE  AgerInv'
<1> DEFINE n == Len(oidList) + 1
           item == [scn |-> mCommitSCN[s], of |-> Obsolete(s), finished |-> FALSE,
                    erasable |-> FALSE, keyFree |-> Infinite, tid |-> mTransID[s]]
<1>1. /\ AgerTypeOK /\ pc[s] = "finish" /\ ~work[s].listed /\ work' = [work EXCEPT ![s].listed = TRUE]
      /\ oidList' = Append(oidList, item) /\ oidList \in Seq(Item) /\ Obsolete(s) # {}
      /\ UNCHANGED <<viewVars, slot, made, gone, key, held, passed, ager>>
  BY DEF AgerInv, AgerTypeOK, AddList, rowVars
<1> HIDE DEF item
<1>2. PICK v \in Versions : /\ Obsolete(s) = {v} /\ v \in Owed(s) /\ Dead(v)
                            /\ made[v] = Infinite \/ gone[v] <= mCommitSCN[s]
                            /\ \A w \in Owed(s) \ {0, v} : ~Dead(w)
  <2>1. OwnInv(s) /\ StatusInv(s) /\ work[s].old \in {0} \cup Versions /\ work[s].new \in {0} \cup Versions
    BY <1>1 DEF AgerInv, AgerTypeOK
  <2>2. CASE mStatus[s] = "COMMIT"
    <3>1. Committed(s) /\ SCNOf(s) = mCommitSCN[s]
      BY <2>2, <1>1 DEF Committed, SCNOf
    <3>2. work[s].old \in Versions /\ Obsolete(s) = {work[s].old} /\ Owed(s) = {work[s].old}
      BY <2>1, <2>2, <3>1, <1>1 DEF Obsolete, Owed
    <3>3. work[s].old # 0
      BY <3>2 DEF Versions
    <3>4. gone[work[s].old] # Infinite /\ gone[work[s].old] = mCommitSCN[s]
      BY <2>1, <3>1, <3>3, <1>1 DEF OwnInv
    <3>5. gone[work[s].old] <= mCommitSCN[s]
      BY <3>2, <3>4, Numbers, <1>1
    <3> QED BY <3>2, <3>4, <3>5 DEF Dead
  <2>3. CASE mStatus[s] # "COMMIT"
    <3>1. ~Committed(s)
      BY <2>3, <1>1 DEF Committed
    <3>2. work[s].new \in Versions /\ Obsolete(s) = {work[s].new} /\ Owed(s) = {work[s].old, work[s].new}
      BY <2>1, <2>3, <3>1, <1>1 DEF Obsolete, Owed
    <3>3. work[s].new # 0
      BY <3>2 DEF Versions
    <3>4. made[work[s].new] = Infinite
      BY <2>1, <3>1, <3>3, <1>1 DEF OwnInv
    <3>5. work[s].old # 0 => ~Dead(work[s].old)
      BY <2>1, <3>1, <1>1 DEF OwnInv, Dead
    <3> QED BY <3>2, <3>4, <3>5 DEF Dead
  <2> QED BY <2>2, <2>3
<1>3. /\ Len(oidList) \in Nat /\ DOMAIN oidList = 1 .. Len(oidList) /\ n \notin DOMAIN oidList
      /\ DOMAIN oidList' = 1 .. n /\ oidList'[n] = item
      /\ \A i \in DOMAIN oidList : oidList'[i] = oidList[i] /\ i \in DOMAIN oidList'
      /\ \A i \in DOMAIN oidList' : i = n \/ i \in DOMAIN oidList
  BY <1>1
<1>4. item.of = {v} /\ item.scn = mCommitSCN[s] /\ ~item.erasable
  BY <1>2 DEF item
<1>5. work'[s].listed /\ \A r \in Slots : r # s => work'[r] = work[r]
  BY <1>1 DEF AgerTypeOK
<1>6. OwnInv(s)' /\ Owed(s)' = {}
  BY <1>5 DEF OwnInv, Owed
<1>7. ASSUME NEW r \in Slots, r # s
      PROVE  OwnInv(r)' /\ \A w \in Versions : w \in Owed(r)' <=> w \in Owed(r)
  BY <1>1, <1>5, <1>7, Still, OwnKept DEF AgerInv
<1>8. ASSUME NEW w \in Versions, w # v PROVE RowInv(w)'
  <2>1. Items(w)' = Items(w)
    BY <1>3, <1>4, <1>8 DEF Items
  <2>2. \A r \in Slots : w \in Owed(r)' => w \in Owed(r)
    BY <1>6, <1>7
  <2>3. Dead(w) => \A r \in Slots : w \in Owed(r) => w \in Owed(r)'
    <3>1. w # 0
      BY DEF Versions
    <3> QED BY <3>1, <1>2, <1>7, <1>8
  <2>4. RowInv(w) /\ (w \in Used' <=> w \in Used)
    BY <1>1 DEF AgerInv, Used
  <2> QED BY <2>1, <2>2, <2>3, <2>4, <1>1, <1>8, RowKept
<1>9. RowInv(v)'
  <2>1. RowInv(v) /\ key[v] /\ v \in Used /\ Items(v) = {} /\ \A r \in Slots : v \in Owed(r) => r = s
    BY <1>2 DEF AgerInv, RowInv
  <2>2. Items(v)' = {n}
    BY <2>1, <1>3, <1>4 DEF Items
  <2>3. \A r \in Slots : v \notin Owed(r)'
    BY <2>1, <1>6, <1>7
  <2> QED BY <2>1, <2>2, <2>3, <1>1 DEF RowInv, Used
<1>10. ASSUME NEW i \in DOMAIN oidList PROVE ItemInv(i)'
  <2>1. ItemInv(i) /\ oidList[i].of \subseteq Versions
    BY <1>10, ItemFacts
  <2>2. \A w \in oidList[i].of : Past(w)' <=> Past(w)
    BY <2>1, <1>1, Still
  <2> QED BY <2>1, <2>2, <1>1, <1>3, <1>10, Still DEF ItemInv, KeysGone, Dead, Used
<1>11. ASSUME NEW i \in DOMAIN oidList', i \notin DOMAIN oidList PROVE ItemInv(i)'
  <2>1. i = n /\ oidList'[i].of = {v} /\ oidList'[i].scn = mCommitSCN[s] /\ ~oidList'[i].erasable
    BY <1>3, <1>4, <1>11
  <2>2. passed \in Nat /\ passed <= Len(oidList) /\ i = Len(oidList) + 1
    BY <2>1, <1>1, Numbers
  <2>3. ~(i <= passed) /\ ~(i < passed) /\ i # passed
    BY <2>2, <1>3
  <2>4. v \in Used' /\ Dead(v)'
    BY <1>1, <1>2 DEF AgerInv, RowInv, Dead, Used
  <2>5. made'[v] = Infinite \/ gone'[v] <= oidList'[i].scn
    BY <2>1, <1>1, <1>2
  <2>6. ~KeysGone(i)' /\ ~(i <= passed')
    BY <2>3, <1>1 DEF KeysGone
  <2> QED BY <2>1, <2>4, <2>5, <2>6 DEF ItemInv
<1>12. ASSUME NEW r \in Slots PROVE HeldInv(r)'
  BY <1>1, <1>12, Still DEF AgerInv, HeldInv, Used
<1>13. ASSUME NEW i \in DOMAIN oidList' PROVE ItemInv(i)'
  BY <1>10, <1>11, <1>13
<1> QED BY <1>1, <1>6, <1>7, <1>8, <1>9, <1>12, <1>13 DEF AgerInv

\* An item is taken when its SCN is below the minimum: every view is later.
LEMMA AgerTakeKept ==
  ASSUME VInv, AgerInv, ViewsGoOn, AgerTypeOK', AgerWalks', \A s \in Slots : StatusInv(s)', AgerTake
  PROVE  AgerInv'
<1>1. /\ AgerTypeOK /\ ager = "take" /\ ager' = "keys" /\ passed' = passed + 1
      /\ passed + 1 < Len(oidList) /\ oidList[passed + 1].scn < safe[Ager]
      /\ UNCHANGED <<viewVars, slot, made, gone, key, held, work, oidList>>
  BY DEF AgerInv, AgerTake, MayTake, Next1, rowVars
<1>2. passed \in Nat /\ Len(oidList) \in Nat /\ DOMAIN oidList = 1 .. Len(oidList)
  BY <1>1, Numbers DEF AgerTypeOK
<1>3. \A r \in Slots : OwnInv(r)' /\ \A w \in Versions : w \in Owed(r)' <=> w \in Owed(r)
  BY <1>1, Still, OwnKept DEF AgerInv
<1>4. Used' = Used
  BY <1>1 DEF Used
<1>5. ASSUME NEW w \in Versions PROVE RowInv(w)'
  <2>1. Items(w)' = Items(w)
    BY <1>1 DEF Items
  <2> QED BY <2>1, <1>1, <1>3, <1>4, <1>5, RowKept DEF AgerInv
<1>6. ASSUME NEW r \in Slots PROVE HeldInv(r)'
  BY <1>1, <1>4, <1>6, Still DEF AgerInv, HeldInv
<1>7. ASSUME NEW i \in DOMAIN oidList PROVE ItemInv(i)'
  <2>1. ItemInv(i) /\ oidList[i] \in Item /\ oidList[i].of \subseteq Versions /\ i \in Nat
    BY <1>7, ItemFacts
  <2>2. (KeysGone(i)' <=> i <= passed) /\ (KeysGone(i) <=> i <= passed)
    <3>1. (i < passed + 1 <=> i <= passed) /\ (i < passed \/ i = passed <=> i <= passed)
      BY <2>1, <1>2
    <3> QED BY <3>1, <1>1 DEF KeysGone
  <2>3. i <= passed' <=> i <= passed \/ i = passed + 1
    BY <2>1, <1>1, <1>2
  <2>4. ASSUME NEW w \in oidList[i].of PROVE Past(w)' <=> Past(w)
    BY <2>1, <2>4, <1>1, Still
  <2>5. ASSUME NEW w \in oidList[i].of, i = passed + 1 PROVE Past(w)
    <3>1. PICK g \in Nat : g = gone[w]
      BY <2>1, <2>5, <1>1, Numbers
    <3>2. PICK m \in Nat : m = safe[Ager]
      BY <1>1, MemAgerAssumption DEF AgerTypeOK, TypeOK, Finite
    <3>3. CASE made[w] = Infinite
      BY <3>3 DEF Past
    <3>4. CASE made[w] # Infinite
      <4>1. PICK c \in Nat : c = oidList[i].scn
        BY <2>1, ViewSCNAssumption DEF Item
      <4>2. g <= c /\ c < m
        BY <2>1, <2>5, <3>1, <3>2, <3>4, <4>1, <1>1 DEF ItemInv
      <4>3. m <= lst + 1 /\ \A s \in Slots : Covers(m, s)
        BY <3>2, MemAgerAssumption DEF VInv, ScanInv, ViewOf
      <4>4. lst \in Nat /\ (\A s \in Slots, k \in Stmts : view[s][k] \in Nat) /\ (\A s \in Slots : scn[s] \in Nat)
        BY <1>1, ViewSCNAssumption DEF AgerTypeOK, TypeOK, Finite
      <4>5. g <= ViewOf(lst)
        BY <4>2, <4>3, <4>4 DEF ViewOf
      <4>6. ASSUME NEW s \in Slots PROVE Covers(g, s)
        <5>1. \A k \in Open(s) : g <= view[s][k]
          BY <4>2, <4>3, <4>4, <4>6 DEF Covers, Open
        <5>2. pc[s] = "set" => g <= scn[s]
          BY <4>2, <4>3, <4>4, <4>6 DEF Covers
        <5> QED BY <5>1, <5>2 DEF Covers
      <4> QED BY <3>1, <4>5, <4>6 DEF Past, Covers
    <3> QED BY <3>3, <3>4
  <2>6. oidList[i].erasable => i <= passed /\ i # passed + 1
    BY <2>1, <1>2 DEF ItemInv
  <2>7. ASSUME NEW w \in oidList[i].of, oidList[i].erasable, NEW r \in Slots, NEW j \in Stmts, w \in held[r][j]
        PROVE  view'[r][j] <= oidList[i].keyFree
    BY <2>1, <2>7, <1>1, Still DEF ItemInv
  <2>8. ASSUME NEW w \in oidList[i].of
        PROVE  /\ w \in Used' /\ Dead(w)'
               /\ made'[w] = Infinite \/ gone'[w] <= oidList'[i].scn
               /\ i <= passed' => Past(w)'
               /\ KeysGone(i)' => ~key'[w]
    BY <2>1, <2>2, <2>3, <2>4, <2>5, <2>8, <1>1, <1>4 DEF ItemInv, Dead
  <2> QED BY <2>3, <2>6, <2>7, <2>8, <1>1 DEF ItemInv
<1>8. passed' > 0
  BY <1>1, <1>2
<1> QED BY <1>1, <1>3, <1>5, <1>6, <1>7, <1>8 DEF AgerInv

\* The keys that are deleted are those of versions that no view sees any more, and
\* that no transaction has still to hand over.
LEMMA DeleteIndexKept ==
  ASSUME VInv, AgerInv, ViewsGoOn, AgerTypeOK', AgerWalks', \A s \in Slots : StatusInv(s)', DeleteIndex
  PROVE  AgerInv'
<1>1. /\ AgerTypeOK /\ ager = "keys" /\ ager' = "erase"
      /\ key' = [v \in Versions |-> key[v] /\ v \notin oidList[passed].of]
      /\ UNCHANGED <<viewVars, slot, made, gone, held, work, oidList, passed>>
  BY DEF AgerInv, DeleteIndex, listVars
<1>2. passed \in DOMAIN oidList /\ passed \in Nat /\ passed > 0
  BY <1>1, Numbers DEF AgerInv
<1>3. ItemInv(passed) /\ oidList[passed].of \subseteq Versions
  BY <1>2, ItemFacts
<1>4. \A r \in Slots : OwnInv(r)' /\ \A w \in Versions : w \in Owed(r)' <=> w \in Owed(r)
  BY <1>1, Still, OwnKept DEF AgerInv
<1>5. Used' = Used
  BY <1>1 DEF Used
<1>6. ASSUME NEW w \in Versions PROVE RowInv(w)'
  <2>1. Items(w)' = Items(w) /\ RowInv(w)
    BY <1>1 DEF Items, AgerInv
  <2>2. CASE w \notin oidList[passed].of
    <3>1. key'[w] = key[w]
      BY <2>2, <1>1, <1>6 DEF AgerTypeOK
    <3> QED BY <2>1, <3>1, <1>1, <1>4, <1>5, <1>6, RowKept
  <2>3. CASE w \in oidList[passed].of
    <3>1. Past(w)' /\ ~key'[w]
      <4>1. Past(w)
        BY <2>3, <1>2, <1>3 DEF ItemInv
      <4> QED BY <4>1, <2>3, <1>1, <1>6, Still
    <3>2. passed \in Items(w)
      BY <2>3, <1>2 DEF Items
    <3>3. \A s \in Slots : w \notin Owed(s)'
      BY <2>1, <3>2, <1>4 DEF RowInv
    <3> QED BY <2>1, <3>1, <3>2, <3>3 DEF RowInv
  <2> QED BY <2>2, <2>3
<1>7. ASSUME NEW r \in Slots PROVE HeldInv(r)'
  BY <1>1, <1>5, <1>7, Still DEF AgerInv, HeldInv
<1>8. ASSUME NEW i \in DOMAIN oidList PROVE ItemInv(i)'
  <2>1. ItemInv(i) /\ oidList[i].of \subseteq Versions
    BY <1>8, ItemFacts
  <2>2. ASSUME NEW w \in oidList[i].of PROVE Past(w)' <=> Past(w)
    BY <2>1, <2>2, <1>1, Still
  <2>3. ASSUME NEW w \in oidList[i].of, KeysGone(i)' PROVE ~key'[w]
    <3>1. i = passed \/ KeysGone(i)
      BY <2>3, <1>1 DEF KeysGone
    <3>2. key'[w] <=> key[w] /\ w \notin oidList[passed].of
      BY <1>1, <2>1, <2>3
    <3> QED BY <2>1, <2>3, <3>1, <3>2 DEF ItemInv
  <2>4. ASSUME NEW w \in oidList[i].of, oidList[i].erasable, NEW r \in Slots, NEW j \in Stmts, w \in held[r][j]
        PROVE  view'[r][j] <= oidList[i].keyFree
    BY <2>1, <2>4, <1>1, Still DEF ItemInv
  <2> QED BY <2>1, <2>2, <2>3, <2>4, <1>1, <1>5 DEF ItemInv, Dead
<1>9. passed' > 0
  BY <1>1, <1>2
<1> QED BY <1>1, <1>4, <1>6, <1>7, <1>8, <1>9 DEF AgerInv

\* Who still has a pointer to a version whose key is gone began before this moment.
LEMMA SetErasableKept ==
  ASSUME VInv, AgerInv, ViewsGoOn, AgerTypeOK', AgerWalks', \A s \in Slots : StatusInv(s)', SetErasable
  PROVE  AgerInv'
<1> DEFINE item == oidList[passed]
<1>1. /\ AgerTypeOK /\ TypeOK /\ ager = "erase" /\ ager' = "take"
      /\ UNCHANGED <<viewVars, slot, made, gone, key, held, work, passed>>
  BY DEF AgerInv, AgerTypeOK, SetErasable, rowVars
<1>0. oidList' = [oidList EXCEPT ![passed] = [item EXCEPT !.keyFree = KeyFreeSCN(item), !.erasable = TRUE]]
  BY DEF SetErasable
<1>2. passed \in DOMAIN oidList /\ passed \in Nat /\ passed > 0 /\ DOMAIN oidList' = DOMAIN oidList
  BY <1>0, <1>1, Numbers DEF AgerInv, AgerTypeOK
<1>3. item \in Item
  BY <1>2, ItemFacts
<1>4. /\ oidList'[passed].of = item.of /\ oidList'[passed].scn = item.scn
      /\ oidList'[passed].erasable /\ oidList'[passed].keyFree = KeyFreeSCN(item)
  BY <1>0, <1>2, <1>3 DEF Item
<1>5. ASSUME NEW i \in DOMAIN oidList, i # passed PROVE oidList'[i] = oidList[i]
  BY <1>0, <1>5
<1>6. \A r \in Slots : OwnInv(r)' /\ \A w \in Versions : w \in Owed(r)' <=> w \in Owed(r)
  BY <1>1, Still, OwnKept DEF AgerInv
<1>7. Used' = Used
  BY <1>1 DEF Used
<1>8. ASSUME NEW w \in Versions PROVE RowInv(w)'
  <2>1. Items(w)' = Items(w)
    BY <1>2, <1>4, <1>5 DEF Items
  <2> QED BY <2>1, <1>1, <1>6, <1>7, <1>8, RowKept DEF AgerInv
<1>9. ASSUME NEW r \in Slots PROVE HeldInv(r)'
  BY <1>1, <1>7, <1>9, Still DEF AgerInv, HeldInv
<1>10. ASSUME NEW i \in DOMAIN oidList PROVE ItemInv(i)'
  <2>1. ItemInv(i) /\ oidList[i].of \subseteq Versions /\ i \in Nat
    BY <1>10, ItemFacts
  <2>2. oidList'[i].of = oidList[i].of /\ oidList'[i].scn = oidList[i].scn
    BY <1>4, <1>5, <1>10
  <2>3. KeysGone(i)' <=> KeysGone(i)
    BY <1>1 DEF KeysGone
  <2>4. ASSUME NEW w \in oidList[i].of PROVE Past(w)' <=> Past(w)
    BY <2>1, <2>4, <1>1, Still
  <2>5. ASSUME NEW w \in oidList[i].of, oidList'[i].erasable, NEW r \in Slots, NEW j \in Stmts, w \in held[r][j]
        PROVE  view'[r][j] <= oidList'[i].keyFree
    <3>1. CASE i = passed
      <4>1. oidList'[i].keyFree = ViewOf(lst)
        BY <3>1, <2>5, <1>4 DEF KeyFreeSCN, IsDummy
      <4>2. j \in Open(r)
        BY <2>5 DEF AgerInv, HeldInv
      <4>3. view[r][j] <= ViewOf(lst)
        BY <4>2 DEF VInv, SlotInv
      <4> QED BY <4>1, <4>3, <1>1, Still
    <3>2. CASE i # passed
      BY <3>2, <2>1, <2>5, <1>1, <1>5, <1>10, Still DEF ItemInv
    <3> QED BY <3>1, <3>2
  <2>6. oidList'[i].erasable => i <= passed
    BY <2>1, <1>2, <1>5, <1>10 DEF ItemInv
  <2>7. ASSUME NEW w \in oidList[i].of
        PROVE  /\ w \in Used' /\ Dead(w)'
               /\ made'[w] = Infinite \/ gone'[w] <= oidList'[i].scn
               /\ i <= passed' => Past(w)'
               /\ KeysGone(i)' => ~key'[w]
    BY <2>1, <2>2, <2>3, <2>4, <2>7, <1>1, <1>7 DEF ItemInv, Dead
  <2> QED BY <2>2, <2>5, <2>6, <2>7, <1>1 DEF ItemInv
<1>11. \A i \in DOMAIN oidList' : ItemInv(i)'
  BY <1>2, <1>10
<1> QED BY <1>1, <1>6, <1>8, <1>9, <1>11 DEF AgerInv

\* The first item is freed when the minimum is above its key-free SCN: nobody has a
\* pointer to its versions.
LEMMA NobodyHolds ==
  ASSUME VInv, AgerInv, IsAgingTarget, NEW v \in oidList[1].of, NEW s \in Slots, NEW k \in Stmts
  PROVE  v \notin held[s][k]
<1> SUFFICES ASSUME v \in held[s][k] PROVE FALSE
  OBVIOUS
<1>1. AgerTypeOK /\ TypeOK /\ LastSCN \in Nat /\ Infinite = LastSCN + 2
  BY Numbers DEF AgerInv, AgerTypeOK
<1>2. 1 \in DOMAIN oidList /\ oidList[1].erasable /\ oidList[1].keyFree < safe[Deleter]
  BY <1>1 DEF IsAgingTarget, Erasable, AgerTypeOK
<1>3. ItemInv(1) /\ oidList[1] \in Item
  BY <1>2, ItemFacts
<1>4. view[s][k] <= oidList[1].keyFree
  BY <1>2, <1>3 DEF ItemInv
<1>5. safe[Deleter] <= view[s][k]
  <2>1. k \in Open(s)
    BY DEF AgerInv, HeldInv
  <2> QED BY <2>1, MemAgerAssumption DEF VInv, ScanInv, Covers
<1>6. view[s][k] \in Nat /\ oidList[1].keyFree \in Nat /\ safe[Deleter] \in Nat
  BY <1>1, <1>3, MemAgerAssumption DEF TypeOK, Finite, Item
<1> QED BY <1>2, <1>4, <1>5, <1>6

\* The first item goes with its slots; the others move up.
LEMMA FreeItemKept ==
  ASSUME VInv, AgerInv, ViewsGoOn, AgerTypeOK', AgerWalks', \A s \in Slots : StatusInv(s)', FreeItem
  PROVE  AgerInv'
<1> DEFINE V == oidList[1].of
<1>1. /\ AgerTypeOK /\ Erasable /\ IsAgingTarget /\ oidList' = Tail(oidList) /\ passed' = passed - 1
      /\ slot' = [v \in Versions |-> IF v \in V THEN "freed" ELSE slot[v]]
      /\ UNCHANGED <<viewVars, made, gone, key, held, work, ager>>
  BY DEF AgerInv, FreeItem, IsAgingTarget
<1>2. 1 \in DOMAIN oidList /\ oidList[1].erasable /\ oidList # <<>> /\ oidList \in Seq(Item)
  BY <1>1 DEF Erasable, AgerTypeOK
<1>3. /\ ItemInv(1) /\ V \subseteq Versions /\ KeysGone(1) /\ passed \in Nat
      /\ DOMAIN oidList = 1 .. Len(oidList) /\ Len(oidList) \in Nat
  BY <1>2, ItemFacts
<1>4. passed >= 1 /\ (passed = 1 => ager \notin {"keys", "erase"})
  BY <1>2, <1>3 DEF ItemInv
<1>5. ager' \in {"keys", "erase"} => passed' > 0
  BY <1>1, <1>3, <1>4
<1>6. /\ DOMAIN oidList' = 1 .. Len(oidList) - 1
      /\ \A i \in 1 .. Len(oidList) - 1 : oidList'[i] = oidList[i + 1] /\ i + 1 \in DOMAIN oidList /\ i + 1 # 1
  BY <1>1, <1>2, <1>3
<1>7. \A i \in DOMAIN oidList : i = 1 \/ (i - 1 \in DOMAIN oidList' /\ (i - 1) + 1 = i)
  BY <1>3, <1>6
<1>8. \A r \in Slots : OwnInv(r)' /\ \A w \in Versions : w \in Owed(r)' <=> w \in Owed(r)
  BY <1>1, Still, OwnKept DEF AgerInv
<1>9. \A w \in Versions : w \in Used' <=> w \in Used /\ w \notin V
  BY <1>1 DEF Used
<1>10. ASSUME NEW w \in Versions PROVE RowInv(w)'
  <2>1. RowInv(w) /\ (Past(w)' <=> Past(w)) /\ (Dead(w)' <=> Dead(w))
    BY <1>1, Still DEF AgerInv, Dead
  <2>2. \A i \in Items(w)' : i \in DOMAIN oidList' /\ i + 1 \in Items(w)
    BY <1>6 DEF Items
  <2>3. \A i \in Items(w) : i = 1 \/ i - 1 \in Items(w)'
    BY <1>6, <1>7 DEF Items
  <2>4. \A i, j \in Items(w)' : i = j
    <3>1. \A i, j \in Items(w)' : i + 1 = j + 1
      BY <2>1, <2>2 DEF RowInv
    <3> QED BY <3>1, <2>2, <1>3, <1>6
  <2>5. CASE w \in V
    <3>1. 1 \in Items(w) /\ ~key[w]
      BY <2>5, <1>2, <1>3 DEF Items, ItemInv
    <3>2. \A s \in Slots : w \notin Owed(s)'
      BY <3>1, <2>1, <1>8 DEF RowInv
    <3>3. w \notin Used'
      BY <2>5, <1>9
    <3> QED BY <2>1, <2>4, <3>1, <3>2, <3>3, <1>1 DEF RowInv
  <2>6. CASE w \notin V
    <3>1. 1 \notin Items(w)
      BY <2>6 DEF Items
    <3>2. Items(w)' = {} <=> Items(w) = {}
      BY <2>2, <2>3, <3>1
    <3>3. w \in Used' <=> w \in Used
      BY <2>6, <1>9
    <3> QED BY <2>1, <2>4, <3>2, <3>3, <1>1, <1>8 DEF RowInv
  <2> QED BY <2>5, <2>6
<1>11. ASSUME NEW r \in Slots PROVE HeldInv(r)'
  <2>1. ASSUME NEW k \in Stmts, NEW w \in held[r][k] PROVE w \in Used'
    <3>1. w \in Used /\ w \in Versions
      BY <1>11, <2>1 DEF AgerInv, HeldInv, Used
    <3>2. w \notin V
      BY <1>1, <1>11, <2>1, NobodyHolds
    <3> QED BY <3>1, <3>2, <1>9
  <2> QED BY <2>1, <1>1, <1>11, Still DEF AgerInv, HeldInv
<1>12. ASSUME NEW i \in DOMAIN oidList' PROVE ItemInv(i)'
  <2>1. PICK j \in DOMAIN oidList : j = i + 1 /\ j # 1 /\ oidList'[i] = oidList[j] /\ i \in Nat
    BY <1>3, <1>6, <1>12
  <2>2. ItemInv(j) /\ oidList[j].of \subseteq Versions
    BY ItemFacts
  <2>3. (i <= passed' <=> j <= passed) /\ (i < passed' <=> j < passed) /\ (i = passed' <=> j = passed)
    BY <2>1, <1>1, <1>3
  <2>4. KeysGone(i)' <=> KeysGone(j)
    BY <2>3, <1>1 DEF KeysGone
  <2>5. ASSUME NEW w \in oidList[j].of PROVE w \in Used' /\ Dead(w)' /\ (Past(w)' <=> Past(w))
    <3>1. w \in Used /\ w \in Versions /\ Dead(w)
      BY <2>2, <2>5 DEF ItemInv
    <3>2. w \notin V
      BY <3>1, <2>1, <2>5, <1>2 DEF AgerInv, RowInv, Items
    <3> QED BY <3>1, <3>2, <1>1, <1>9, Still DEF Dead
  <2>6. ASSUME NEW w \in oidList[j].of, oidList[j].erasable, NEW r \in Slots, NEW k \in Stmts, w \in held[r][k]
        PROVE  view'[r][k] <= oidList[j].keyFree
    BY <2>2, <2>6, <1>1, Still DEF ItemInv
  <2> QED BY <2>1, <2>2, <2>3, <2>4, <2>5, <2>6, <1>1 DEF ItemInv
<1> QED BY <1>1, <1>5, <1>8, <1>10, <1>11, <1>12 DEF AgerInv

-----------------------------------------------------------------------------
(* The invariant.                                                          *)

\* AgerInv holds initially: one version, with its key.
LEMMA AgerInitially == AgerInit => VInv /\ AgerInv
<1> SUFFICES ASSUME AgerInit PROVE VInv /\ AgerInv
  OBVIOUS
<1> USE MemAgerAssumption, ViewSCNAssumption
<1>1. VInv /\ TypeOK
  BY Initially DEF AgerInit, VInv
<1>2. 1 \in Versions /\ 0 \notin Versions /\ Infinite \notin 0 .. LastSCN /\ oidList = <<>>
  BY DEF Versions, Infinite, AgerInit
<1>3. AgerTypeOK
  <2>1. oidList \in Seq(Item) /\ Len(oidList) = 0
    BY <1>2
  <2> QED BY <1>1, <1>2, <2>1 DEF AgerTypeOK, AgerInit, NoChange, DeleterIdle
<1>4. \A s \in Slots : work[s] = NoChange /\ pc[s] = "end" /\ mStatus[s] = "END" /\ held[s] = [k \in Stmts |-> {}]
  BY DEF AgerInit, Init
<1>5. ASSUME NEW s \in Slots PROVE StatusInv(s) /\ OwnInv(s) /\ HeldInv(s)
  BY <1>4, <1>5 DEF StatusInv, OwnInv, HeldInv, NoChange
<1>6. ASSUME NEW v \in Versions PROVE RowInv(v)
  <2>1. v \in Used <=> v = 1
    BY DEF Used, AgerInit
  <2>2. Items(v) = {} /\ \A s \in Slots : v \notin Owed(s)
    BY <1>2, <1>4 DEF Items, Owed, NoChange
  <2>3. v # 1 => Past(v)
    BY DEF Past, AgerInit
  <2>4. Dead(v) => v # 1
    BY <1>2 DEF Dead, AgerInit
  <2> QED BY <2>1, <2>2, <2>3, <2>4 DEF RowInv, AgerInit
<1>7. \A i \in DOMAIN oidList : ItemInv(i)
  BY <1>2
<1>8. ager = "idle" /\ AgerWalks
  BY DEF AgerInit, Init, Idle, AgerWalks
<1> QED BY <1>1, <1>3, <1>5, <1>6, <1>7, <1>8 DEF AgerInv

\* AgerInv is kept by every step of a transaction and of the two threads.
LEMMA AgerKept == VInv /\ AgerInv /\ [AgerNext]_agerVars => VInv' /\ AgerInv'
<1> SUFFICES ASSUME VInv, AgerInv, [AgerNext]_agerVars PROVE VInv' /\ AgerInv'
  OBVIOUS
<1>1. CASE UNCHANGED agerVars
  <2>1. VInv' /\ UNCHANGED <<viewVars, slot, made, gone, key, held, work, oidList, passed, ager, deleter>>
    BY <1>1, NothingGoesOn DEF agerVars, rowVars, listVars
  <2>2. AgerTypeOK' /\ AgerWalks' /\ \A s \in Slots : StatusInv(s)' /\ HeldInv(s)'
    BY <2>1 DEF VInv, AgerInv, AgerTypeOK, AgerWalks, StatusInv, HeldInv, Open, Used, viewVars, transVars, stmtVars,
       scanVars
  <2>3. \A s \in Slots : OwnInv(s)' /\ \A v \in Versions : v \in Owed(s)' <=> v \in Owed(s)
    BY <2>1, Still, OwnKept DEF AgerInv
  <2>4. \A v \in Versions : Past(v)' <=> Past(v)
    BY <2>1, Still
  <2>5. \A v \in Versions : RowInv(v)'
    BY <2>1, <2>3, <2>4 DEF AgerInv, RowInv, Used, Dead, Items
  <2>6. ASSUME NEW i \in DOMAIN oidList PROVE ItemInv(i)'
    <3>1. ItemInv(i) /\ oidList[i].of \subseteq Versions
      BY <2>6, ItemFacts
    <3> QED BY <3>1, <2>1, <2>4, Still DEF ItemInv, Used, Dead, KeysGone
  <2> QED BY <2>1, <2>2, <2>3, <2>5, <2>6 DEF AgerInv
<1>2. CASE AgerNext
  <2>1. VInv' /\ ViewsGoOn /\ TypeOK'
    BY <1>2, ViewsKept DEF VInv
  <2>2. AgerTypeOK /\ AgerWalks' /\ \A s \in Slots : StatusInv(s) /\ StatusInv(s)'
    BY <1>2, StatusKept, WalksKept DEF AgerInv, AgerTypeOK
  <2>3. ASSUME NEW s \in Slots, User(s) PROVE AgerInv'
    <3>1. AgerTypeOK'
      BY <2>1, <2>2, <2>3, UserTypes DEF AgerInv
    <3>2. ASSUME NEW k \in Stmts, LeaveStmt(s, k) PROVE AgerInv'
      BY <2>1, <2>2, <3>1, <3>2, LeaveStmtKept
    <3>3. ASSUME NEW k \in Stmts, NEW v \in Versions, Reach(s, k, v) PROVE AgerInv'
      BY <2>1, <2>2, <3>1, <3>3, ReachKept
    <3>4. 0 \in {0} \cup Versions /\ \A v \in Versions : v # 0 /\ v \in {0} \cup Versions
      BY DEF Versions
    <3>5. ASSUME NEW k \in Stmts, NEW v \in Versions, RemoveVersion(s, k, v) PROVE AgerInv'
      <4>1. Change(s, v, 0) /\ UNCHANGED <<slot, made, gone, key>> /\ Target(s, k, v)
        BY <3>5 DEF RemoveVersion
      <4> QED BY <4>1, <2>1, <2>2, <3>1, <3>4, TargetFree, ChangeKept
    <3>6. ASSUME NEW k \in Stmts, NEW v \in Versions, NEW n \in Versions, UpdateVersion(s, k, v, n) PROVE AgerInv'
      <4>1. Change(s, v, n) /\ Fill(n) /\ Target(s, k, v)
        BY <3>6 DEF UpdateVersion
      <4> QED BY <4>1, <2>1, <2>2, <3>1, <3>4, TargetFree, ChangeKept
    <3>7. ASSUME NEW n \in Versions, InsertVersion(s, n) PROVE AgerInv'
      <4>1. Change(s, 0, n) /\ Fill(n)
        BY <3>7 DEF InsertVersion
      <4> QED BY <4>1, <2>1, <2>2, <3>1, <3>4, ChangeKept
    <3>8. CASE CommitChange(s)
      BY <2>1, <2>2, <3>1, <3>8, CommitChangeKept
    <3>9. CASE AddList(s)
      BY <2>1, <2>2, <3>1, <3>9, AddListKept
    <3>10. CASE SetFinished(s)
      BY <2>1, <2>2, <3>1, <3>10, SetFinishedKept
    <3>11. CASE EndWork(s)
      BY <2>1, <2>2, <3>1, <3>11, EndWorkKept
    <3>12. CASE Otherwise(s)
      BY <2>1, <2>2, <3>1, <3>12, OtherwiseKept
    <3> QED BY <2>3, <3>2, <3>3, <3>5, <3>6, <3>7, <3>8, <3>9, <3>10, <3>11, <3>12 DEF User
  <2>4. CASE AgerStep
    <3>1. AgerTypeOK'
      BY <2>1, <2>4, AgerTypes DEF AgerInv
    <3>2. CASE AddDummy
      BY <2>1, <2>2, <3>1, <3>2, AddDummyKept
    <3>3. CASE AgerTake
      BY <2>1, <2>2, <3>1, <3>3, AgerTakeKept
    <3>4. CASE DeleteIndex
      BY <2>1, <2>2, <3>1, <3>4, DeleteIndexKept
    <3>5. CASE SetErasable
      BY <2>1, <2>2, <3>1, <3>5, SetErasableKept
    <3>6. CASE AgerStart \/ AgerScan \/ AgerScanned \/ AgerStop
      BY <2>1, <2>2, <3>1, <3>6, WalkKept
    <3> QED BY <2>4, <3>2, <3>3, <3>4, <3>5, <3>6 DEF AgerStep
  <2>5. CASE DeleterStep
    <3>1. Erasable => passed > 0
      <4>1. Erasable => 1 \in DOMAIN oidList
        BY <2>2 DEF Erasable, AgerTypeOK
      <4>2. Erasable => 1 <= passed /\ passed \in Nat
        BY <4>1, ItemFacts DEF Erasable, ItemInv
      <4> QED BY <4>2
    <3>2. AgerTypeOK'
      BY <2>1, <2>2, <2>5, <3>1, DeleterTypes
    <3>3. CASE FreeItem
      BY <2>1, <2>2, <3>2, <3>3, FreeItemKept
    <3>4. CASE ~FreeItem
      BY <2>1, <2>2, <2>5, <3>2, <3>4, WalkKept DEF DeleterStep
    <3> QED BY <3>3, <3>4
  <2> QED BY <1>2, <2>1, <2>3, <2>4, <2>5 DEF AgerNext
<1> QED BY <1>1, <1>2

\* The inductive invariant, beside that of the views.
THEOREM AgerInvariance == AgerSpec => [](VInv /\ AgerInv)
BY AgerInitially, AgerKept, PTL DEF AgerSpec

-----------------------------------------------------------------------------
(* What follows from it.                                                   *)

\* Every variable keeps its type.
THEOREM AgerTypesKept == AgerSpec => []AgerTypeOK
<1>1. AgerInv => AgerTypeOK
  BY DEF AgerInv
<1> QED BY <1>1, AgerInvariance, PTL

\* A search without latches never leads to a slot that is freed or reused: keys go
\* before slots, and a slot waits for the statements that came before the key went
\* (deleteIndex, realDelete, isAgingTarget; BUG-18343).
THEOREM NoFreedSlotRead == AgerSpec => []ReadsNoFreed
<1>1. AgerInv => ReadsNoFreed
  BY DEF AgerInv, HeldInv, RowInv, ReadsNoFreed
<1> QED BY <1>1, AgerInvariance, PTL

\* What a statement may see stays in the index and in its slot until the statement
\* ends, through the walk of getMinMemViewSCNofAll and the work of both threads.
THEOREM VisibleNotReclaimed == AgerSpec => []VisibleStays
<1>1. ASSUME AgerInv PROVE VisibleStays
  <2> SUFFICES ASSUME NEW s \in Slots, NEW k \in Open(s), NEW v \in Versions, made[v] <= view[s][k], view[s][k] < gone[v]
               PROVE  key[v] /\ v \in Used
    BY DEF VisibleStays
  <2>1. AgerTypeOK /\ RowInv(v) /\ k \in Stmts
    BY <1>1 DEF AgerInv, Open
  <2>2. /\ LastSCN \in Nat /\ Infinite = LastSCN + 2 /\ made[v] \in Nat /\ gone[v] \in Nat
        /\ view[s][k] \in 0 .. LastSCN + 1
    BY <2>1, Numbers
  <2>3. made[v] # Infinite
    BY <2>2
  <2>4. ~Past(v)
    <3>1. ~(gone[v] <= view[s][k])
      BY <2>2
    <3> QED BY <3>1, <2>3 DEF Past, Covers
  <2> QED BY <2>1, <2>4 DEF RowInv, AgerTypeOK
<1> QED BY <1>1, AgerInvariance, PTL

\* A dead version has one owner, the transaction that will hand it over or one item
\* of the list, and no other version is in the list: no slot leaks and none is freed
\* twice (addOIDList2LogicalAger, addList, processAgingOIDNodeList).
THEOREM NoVersionLost == AgerSpec => []NothingLost
<1>1. ASSUME AgerInv PROVE NothingLost
  <2> SUFFICES ASSUME NEW v \in Versions
               PROVE  IF v \in Used /\ Dead(v)
                      THEN Cardinality(Items(v)) + Cardinality({s \in Slots : v \in Owed(s)}) = 1
                      ELSE Items(v) = {}
    BY DEF NothingLost
  <2> DEFINE Owners == {s \in Slots : v \in Owed(s)}
  <2>1. RowInv(v)
    BY <1>1 DEF AgerInv
  <2>2. CASE v \in Used /\ Dead(v)
    <3>1. CASE Items(v) # {}
      <4>1. PICK i : Items(v) = {i}
        BY <2>1, <3>1 DEF RowInv
      <4>2. Owners = {}
        BY <2>1, <3>1 DEF RowInv
      <4>3. Cardinality(Items(v)) = 1 /\ Cardinality(Owners) = 0
        BY <4>1, <4>2, FS_Singleton, FS_EmptySet
      <4> QED BY <4>3, <2>2
    <3>2. CASE Items(v) = {}
      <4>1. PICK s \in Slots : v \in Owed(s)
        BY <2>1, <2>2, <3>2 DEF RowInv
      <4>2. Owners = {s}
        BY <4>1, <2>1 DEF RowInv
      <4>3. Cardinality(Items(v)) = 0 /\ Cardinality(Owners) = 1
        BY <4>2, <3>2, FS_Singleton, FS_EmptySet
      <4> QED BY <4>3, <2>2
    <3> QED BY <3>1, <3>2
  <2>3. CASE ~(v \in Used /\ Dead(v))
    <3>1. ASSUME NEW i \in DOMAIN oidList, v \in oidList[i].of PROVE FALSE
      BY <1>1, <2>3, <3>1 DEF AgerInv, ItemInv
    <3>2. Items(v) = {}
      BY <3>1 DEF Items
    <3> QED BY <2>3, <3>2
  <2> QED BY <2>2, <2>3
<1> QED BY <1>1, AgerInvariance, PTL

-----------------------------------------------------------------------------
(* Refinement of Reclaim.                                                  *)

StoreMap == Used
LinkedMap == {v \in Versions : key[v]}
HeldMap == [r \in Slots \X Stmts |-> held[r[1]][r[2]]]

\* A step that leaves slots, keys and pointers alone changes nothing of Reclaim.
LEMMA SameMap ==
  ASSUME AgerTypeOK, AgerTypeOK', Used' = Used, key' = key, held' = held
  PROVE  UNCHANGED <<StoreMap, LinkedMap, HeldMap>>
BY DEF StoreMap, LinkedMap, HeldMap

\* Filling a free slot, with or without a change of another version.
LEMMA FillRefines ==
  ASSUME AgerTypeOK, NEW n \in Versions, Fill(n), held' = held
  PROVE  Collector!Next
<1>1. ASSUME NEW v \in Versions PROVE (slot'[v] = IF v = n THEN "used" ELSE slot[v]) /\ (key'[v] <=> v = n \/ key[v])
  BY DEF Fill, AgerTypeOK
<1>2. n \notin Used /\ Used' = Used \cup {n}
  BY <1>1 DEF Used, Fill
<1>3. LinkedMap' = LinkedMap \cup {n}
  BY <1>1 DEF LinkedMap
<1>4. HeldMap' = HeldMap
  BY DEF HeldMap
<1> QED BY <1>2, <1>3, <1>4 DEF Collector!Next, Collector!Put, LinkedMap, HeldMap

\* Every step of the detailed model is a step of Reclaim or changes nothing there.
LEMMA StepCollects ==
  ASSUME VInv, AgerInv, AgerInv', AgerNext
  PROVE  Collector!Next \/ UNCHANGED <<StoreMap, LinkedMap, HeldMap>>
<1>1. AgerTypeOK /\ AgerTypeOK'
  BY DEF AgerInv
<1>2. ASSUME NEW s \in Slots, User(s) PROVE Collector!Next \/ UNCHANGED <<StoreMap, LinkedMap, HeldMap>>
  <2>1. ASSUME NEW k \in Stmts, LeaveStmt(s, k) PROVE Collector!Next
    <3>1. held' = [held EXCEPT ![s][k] = {}] /\ Used' = Used /\ LinkedMap' = LinkedMap
      BY <2>1 DEF LeaveStmt, Used, LinkedMap
    <3>2. ASSUME NEW r \in Slots \X Stmts PROVE held'[r[1]][r[2]] = IF r = <<s, k>> THEN {} ELSE held[r[1]][r[2]]
      <4>1. r[1] \in Slots /\ r[2] \in Stmts /\ (r = <<s, k>> <=> r[1] = s /\ r[2] = k)
        BY <3>2
      <4>2. held[s] \in [Stmts -> SUBSET Versions] /\ held \in [Slots -> [Stmts -> SUBSET Versions]]
        BY <1>1 DEF AgerTypeOK
      <4> QED BY <4>1, <4>2, <3>1
    <3>3. HeldMap' = [HeldMap EXCEPT ![<<s, k>>] = {}]
      BY <3>2 DEF HeldMap
    <3>4. <<s, k>> \in Slots \X Stmts
      OBVIOUS
    <3>5. Collector!LetGo(<<s, k>>)
      BY <3>1, <3>3 DEF Collector!LetGo, LinkedMap, HeldMap
    <3> QED BY <3>4, <3>5 DEF Collector!Next
  <2>2. ASSUME NEW k \in Stmts, NEW v \in Versions, Reach(s, k, v) PROVE Collector!Next
    <3>1. held' = [held EXCEPT ![s][k] = @ \cup {v}] /\ Used' = Used /\ LinkedMap' = LinkedMap /\ v \in LinkedMap
      BY <2>2 DEF Reach, Used, LinkedMap
    <3>2. ASSUME NEW r \in Slots \X Stmts
          PROVE  held'[r[1]][r[2]] = IF r = <<s, k>> THEN held[r[1]][r[2]] \cup {v} ELSE held[r[1]][r[2]]
      <4>1. r[1] \in Slots /\ r[2] \in Stmts /\ (r = <<s, k>> <=> r[1] = s /\ r[2] = k)
        BY <3>2
      <4>2. held[s] \in [Stmts -> SUBSET Versions] /\ held \in [Slots -> [Stmts -> SUBSET Versions]]
        BY <1>1 DEF AgerTypeOK
      <4> QED BY <4>1, <4>2, <3>1
    <3>3. HeldMap' = [HeldMap EXCEPT ![<<s, k>>] = @ \cup {v}]
      BY <3>2 DEF HeldMap
    <3>4. <<s, k>> \in Slots \X Stmts
      OBVIOUS
    <3>5. Collector!Reach(<<s, k>>, v)
      BY <3>1, <3>3 DEF Collector!Reach, LinkedMap, HeldMap
    <3> QED BY <3>4, <3>5 DEF Collector!Next
  <2>3. ASSUME NEW n \in Versions, Fill(n), NEW old, Change(s, old, n) PROVE Collector!Next
    BY <2>3, <1>1, FillRefines DEF Change
  <2>4. CASE UNCHANGED <<slot, key, held>>
    BY <2>4, <1>1, SameMap DEF Used
  <2> QED BY <1>2, <2>1, <2>2, <2>3, <2>4
      DEF User, UpdateVersion, InsertVersion, RemoveVersion, Change, CommitChange, AddList, SetFinished, EndWork,
          Otherwise, rowVars
<1>3. CASE AgerStep
  <2>1. CASE DeleteIndex
    <3>1. LinkedMap' \subseteq LinkedMap
      BY <2>1, <1>1 DEF DeleteIndex, LinkedMap, AgerTypeOK
    <3>2. Collector!Cut
      BY <2>1, <3>1 DEF DeleteIndex, Collector!Cut, LinkedMap, Used
    <3> QED BY <3>2 DEF Collector!Next
  <2>2. CASE UNCHANGED <<slot, key, held>>
    BY <2>2, <1>1, SameMap DEF Used
  <2> QED BY <1>3, <2>1, <2>2 DEF AgerStep, AddDummy, AgerStart, AgerScan, AgerScanned, AgerTake, SetErasable, AgerStop,
       rowVars
<1>4. CASE DeleterStep
  <2>1. CASE FreeItem
    <3>1. /\ slot' = [v \in Versions |-> IF v \in oidList[1].of THEN "freed" ELSE slot[v]]
          /\ IsAgingTarget /\ UNCHANGED <<key, held>>
      BY <2>1 DEF FreeItem
    <3>2. 1 \in DOMAIN oidList /\ oidList[1].erasable
      BY <3>1, <1>1 DEF IsAgingTarget, Erasable, AgerTypeOK
    <3>3. ASSUME NEW v \in Used \ Used'
          PROVE  v \notin LinkedMap /\ \A r \in Slots \X Stmts : v \notin HeldMap[r]
      <4>1. v \in oidList[1].of
        BY <3>1, <3>3 DEF Used
      <4>2. ~key[v]
        BY <4>1, <3>2, ItemFacts DEF ItemInv
      <4>3. \A s \in Slots, k \in Stmts : v \notin held[s][k]
        BY <4>1, <3>1, NobodyHolds
      <4> QED BY <4>2, <4>3 DEF LinkedMap, HeldMap
    <3>4. Used' \subseteq Used
      BY <3>1 DEF Used
    <3>5. Collector!Release
      BY <3>1, <3>3, <3>4 DEF Collector!Release, LinkedMap, HeldMap
    <3> QED BY <3>5 DEF Collector!Next
  <2>2. CASE DeleterCommit
    <3>1. Used' = Used
      BY <2>2, <1>1 DEF DeleterCommit, Used, AgerTypeOK
    <3> QED BY <2>2, <3>1, <1>1, SameMap DEF DeleterCommit
  <2>3. CASE UNCHANGED <<slot, key, held>>
    BY <2>3, <1>1, SameMap DEF Used
  <2> QED BY <1>4, <2>1, <2>2, <2>3 DEF DeleterStep, DeleterHead, DeleterStart, DeleterScan, DeleterScanned,
       IncreaseSystemSCN, rowVars
<1> QED BY <1>2, <1>3, <1>4 DEF AgerNext

\* The two threads, with their list, SCNs and walks, do what Reclaim promises: keys
\* go before slots, and a slot goes when no reader has a pointer to it.
THEOREM AgersImplementReclaim == AgerSpec => ImplementsReclaim
<1>1. AgerInit => Collector!Init
  <2> SUFFICES ASSUME AgerInit PROVE Collector!Init
    OBVIOUS
  <2>1. Used = {v \in Versions : key[v]} /\ Used \subseteq Versions
    BY DEF Used, AgerInit
  <2>2. HeldMap = [r \in Slots \X Stmts |-> {}]
    BY DEF HeldMap, AgerInit
  <2> QED BY <2>1, <2>2 DEF Collector!Init, HeldMap
<1>2. VInv /\ AgerInv /\ AgerInv' /\ [AgerNext]_agerVars => [Collector!Next]_(Collector!vars)
  <2> SUFFICES ASSUME VInv, AgerInv, AgerInv', [AgerNext]_agerVars
               PROVE  Collector!Next \/ UNCHANGED <<StoreMap, LinkedMap, HeldMap>>
    BY DEF Collector!vars, StoreMap, LinkedMap, HeldMap
  <2>1. CASE UNCHANGED agerVars
    <3>1. AgerTypeOK /\ AgerTypeOK' /\ Used' = Used /\ UNCHANGED <<key, held>>
      BY <2>1 DEF agerVars, rowVars, AgerInv, Used
    <3> QED BY <3>1, SameMap
  <2> QED BY <2>1, StepCollects
<1> QED BY <1>1, <1>2, AgerInvariance, PTL DEF AgerSpec, ImplementsReclaim, Collector!Spec
=============================================================================
