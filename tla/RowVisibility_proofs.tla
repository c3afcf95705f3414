------------------------ MODULE RowVisibility_proofs ------------------------
(***************************************************************************)
(* A reader without latches judges versions by the snapshot of its view,   *)
(* and no update is lost, for any number of slots, statements, versions    *)
(* and transactions.                                                       *)
(*                                                                         *)
(* The argument.  Whether a transaction committed before a view was taken  *)
(* never changes once the view is there (RowsGoOn): commits to come take   *)
(* later SCNs.  So a verdict is right if it was at any moment of the       *)
(* reading, and a reader may put together what it copies from the row and  *)
(* from the writer's slot at different times, as long as each piece says   *)
(* the truth about the writer that stands in the row: for that the slot    *)
(* must have its TID at the end (AskInv), since TIDs only grow.            *)
(***************************************************************************)
EXTENDS RowVisibility, ViewSCN_proofs, FiniteSetTheorems

Known(t) == t \in TIDs /\ t <= mTransID[SlotOf(t)]
Current(t) == mTransID[SlotOf(t)] = t

Uncommitted == {"end", "run", "view", "set", "precommit", "init"}
Decided == {"committed", "finish", "ended"}

\* Where the transaction of a slot stands, its status, its SCN and what it has left
\* to stamp.
CommitInv(s) ==
  /\ pc[s] \in {"run", "view", "set"} => mStatus[s] = "BEGIN"
  /\ pc[s] \in {"precommit", "taken", "scnset"} => mStatus[s] = "PRECOMMIT"
  /\ pc[s] = "committed" => mStatus[s] = "COMMIT"
  /\ pc[s] = "finish" => mStatus[s] \in {"COMMIT", "ABORT"}
  /\ pc[s] \in {"end", "ended", "init"} => mStatus[s] = "END" /\ Clean(s)
  /\ legacy[s] = {} /\ (pc[s] \notin {"run", "view", "set"} => Open(s) = {})
  /\ pc[s] \in Uncommitted \/ mStatus[s] = "ABORT" => commitOf[mTransID[s]] = Infinite
  /\ pc[s] \in {"taken", "scnset", "committed"} => commitOf[mTransID[s]] = scn[s]
  /\ pc[s] = "scnset" \/ mStatus[s] = "COMMIT" => commitOf[mTransID[s]] = mCommitSCN[s]
  /\ pc[s] \in (Uncommitted \ {"init"}) \cup {"taken"} => mCommitSCN[s] = Infinite
  /\ pc[s] = "finish" /\ ~Clean(s) => mStatus[s] = "COMMIT" /\ commitOf[mTransID[s]] # Infinite
  /\ op[s].step # "none" => pc[s] = "run"

\* TIDs go round the slots and only grow; one that is not reached yet has no SCN.
TidInv(s) ==
  \E q \in 0 .. LastTrans :
    /\ mTransID[s] = q * mTransCnt + s
    /\ pc[s] \notin {"end", "init"} => q < LastTrans
HistoryInv ==
  /\ \A t \in TIDs : commitOf[t] # Infinite => Known(t) /\ commitOf[t] <= lst
  /\ commitOf[NullTID] = 0

\* A transaction that rolls back will not commit.
Undoing(s) ==
  \/ pc[s] = "run" /\ op[s].step \in {"undo", "unlimit"}
  \/ pc[s] \in {"finish", "ended"}
Never(t) ==
  /\ Known(t) /\ commitOf[t] = Infinite
  /\ Current(t) => Undoing(SlotOf(t))

\* What stands in a version, and who has to do with it.
CreateInv(v) ==
  /\ creator[v] # NullTID => Known(creator[v])
  /\ create[v].kind \in {"scn", "inf"}
  /\ create[v].kind = "scn" => create[v].of = commitOf[creator[v]] /\ commitOf[creator[v]] # Infinite
  /\ create[v].kind = "inf" => create[v].of = creator[v] /\ (v \in deleted \/ Current(creator[v]))
  /\ v \in deleted => create[v].kind = "inf" /\ Never(creator[v])
LimitInv(v) ==
  /\ limit[v].kind = "free" => limit[v] = FreeRow
  /\ limit[v].kind \in {"free", "lock"} <=> limiter[v] = NullTID
  /\ limit[v].kind = "lock" =>
       \E s \in Slots : limit[v].of = mTransID[s] /\ op[s].step = "locked" /\ op[s].v = v
  /\ limit[v].kind = "inf" => limit[v].of = limiter[v] /\ Known(limiter[v]) /\ Current(limiter[v])
  /\ limit[v].kind = "scn" => limit[v].of = commitOf[limiter[v]] /\ commitOf[limiter[v]] # Infinite
ChainInv(v) ==
  v \notin deleted /\ prev[v] # 0 =>
    /\ prev[v] \in Used /\ creator[v] # NullTID /\ limiter[prev[v]] = creator[v]
    /\ \A w \in Used \ deleted : prev[w] = prev[v] => w = v

\* What a writer knows in the middle of its change.
WriteInv(s) ==
  /\ op[s].step = "locked" => op[s].v \in Used /\ limit[op[s].v] = Lock(mTransID[s])
  /\ op[s].step \in {"limited", "unlimit"} =>
       /\ op[s].v \in Used /\ limit[op[s].v] = Inf(mTransID[s])
       /\ \A w \in Used \ deleted : prev[w] # op[s].v

\* Was version v there at that time, and was it over?
Began(v, at) == commitOf[creator[v]] <= at
Over(v, at) == limiter[v] # NullTID /\ commitOf[limiter[v]] <= at

\* What the copies of a reader say of the version.
CreateCopy(o) ==
  /\ o.create.kind = "scn" => (o.create.of <= o.view <=> Began(o.v, o.view))
  /\ o.create.kind # "scn" => o.create.kind = "inf" /\ o.create.of = creator[o.v]
  /\ "create" \in o.done /\ o.create.kind = "inf" /\ ~o.late => ~Began(o.v, o.view)
LimitCopy(o) ==
  /\ o.limit.kind = "scn" => (o.limit.of <= o.view <=> Over(o.v, o.view))
  /\ o.limit.kind \in {"free", "lock"} => ~Over(o.v, o.view)
  /\ o.limit.kind = "inf" => Known(o.limit.of) /\ (commitOf[o.limit.of] <= o.view <=> Over(o.v, o.view))
  /\ "limit" \in o.done /\ o.limit.kind = "inf" /\ ~o.late => ~Over(o.v, o.view)

\* What it has read from the writer's slot is true of the writer if the slot still has
\* its TID.
Asked(o, t) ==
  /\ o.status \in {"BEGIN", "ABORT"} => ~(commitOf[t] <= o.view)
  /\ o.status = "COMMIT" =>
       /\ pc[SlotOf(t)] \in Decided /\ commitOf[t] = mCommitSCN[SlotOf(t)]
       /\ o.step = "tid" => o.scn = mCommitSCN[SlotOf(t)]
AskInv(o) ==
  ~Resolved(o) /\ Asks(o) /\ (Current(o[Field(o)].of) => Asked(o, o[Field(o)].of))

Reading == {"limit", "status", "scn", "tid", "seen"}
ReadOK(o) ==
  o.step \in Reading =>
    /\ o.v \in Used /\ o.view <= ViewOf(lst)
    /\ o.step = "limit" => o.done = {}
    /\ o.step # "seen" => CreateCopy(o)
    /\ o.step \in {"status", "scn", "tid"} => LimitCopy(o)
    /\ o.step \in {"scn", "tid"} => AskInv(o)
    /\ o.step = "seen" =>
         /\ o.seen => Began(o.v, o.view)
         /\ ~o.late => (o.seen <=> InSnapshot(o.v, o.view))
ReadInv(s) == ReadOK(op[s])

OpType ==
  [step : {"none", "locked", "limited", "undo", "unlimit"} \cup Reading, v : 0 .. VersionCnt, view : Finite,
   create : Stamp, limit : Stamp, done : SUBSET {"create", "limit"},
   status : {"END", "BEGIN", "PRECOMMIT", "COMMIT", "ABORT"}, scn : 0 .. LastSCN \cup {Infinite},
   late : BOOLEAN, seen : BOOLEAN]

RowInv ==
  /\ RowTypeOK /\ op \in [Slots -> OpType]
  /\ \E n \in 0 .. VersionCnt : Used = 1 .. n
  /\ HistoryInv
  /\ \A s \in Slots : CommitInv(s) /\ TidInv(s) /\ WriteInv(s) /\ ReadInv(s)
  /\ \A v \in Used : CreateInv(v) /\ LimitInv(v) /\ ChainInv(v)

\* What a step may do to history: SCNs taken are later than any view, commits are for
\* ever, only what is not committed is undone.
VersionsGoOn ==
  \A v \in Used :
    /\ v \in Used' /\ creator'[v] = creator[v]
    /\ v \in deleted => v \in deleted'
    /\ v \in deleted' => v \in deleted \/ commitOf[creator[v]] = Infinite
    /\ \/ limiter'[v] = limiter[v]
       \/ limiter[v] = NullTID /\ limiter'[v] \in TIDs /\ commitOf[limiter'[v]] = Infinite
       \/ limiter'[v] = NullTID /\ commitOf[limiter[v]] = Infinite
RowsGoOn ==
  /\ lst' \in Nat /\ lst <= lst'
  /\ \A s \in Slots :
       /\ mTransID'[s] \in Nat /\ mTransID[s] <= mTransID'[s]
       /\ mTransID'[s] = mTransID[s] /\ pc[s] \in Decided =>
            /\ pc'[s] \in Decided /\ mCommitSCN'[s] = mCommitSCN[s]
            /\ commitOf'[mTransID[s]] = commitOf[mTransID[s]]
  /\ \A t \in TIDs \cup {NullTID} :
       commitOf'[t] = commitOf[t] \/ (commitOf[t] = Infinite /\ commitOf'[t] = lst + 2)
  /\ VersionsGoOn

(***************************************************************************)
(* TIDs and slots.                                                         *)
(***************************************************************************)

\* A slot's TIDs are those with its number as remainder (smxTrans::getTransSlot).
LEMMA SlotOfTID ==
  ASSUME NEW q \in Nat, NEW s \in Slots
  PROVE  q * mTransCnt + s \in Nat /\ SlotOf(q * mTransCnt + s) = s
<1>1. mTransCnt \in Nat \ {0} /\ s \in 0 .. mTransCnt - 1
  BY ViewSCNAssumption DEF Slots
<1>2. ASSUME NEW n \in Nat \ {0}, NEW i \in 0 .. n - 1 PROVE q * n + i \in Nat /\ (q * n + i) % n = i
  OBVIOUS
<1> QED BY <1>1, <1>2 DEF SlotOf

\* Every TID has a slot.
LEMMA SlotOfIsSlot == \A t \in Nat : SlotOf(t) \in Slots
<1>1. mTransCnt \in Nat \ {0}
  BY ViewSCNAssumption
<1>2. ASSUME NEW n \in Nat \ {0}, NEW t \in Nat PROVE t % n \in 0 .. n - 1
  OBVIOUS
<1> QED BY <1>1, <1>2 DEF SlotOf, Slots

\* The TID in a slot is one of those that the bounds allow, and belongs to the slot;
\* there is another one after it as long as the transaction has begun.
LEMMA SlotTID ==
  ASSUME NEW s \in Slots, TidInv(s)
  PROVE  /\ mTransID[s] \in TIDs /\ SlotOf(mTransID[s]) = s
         /\ pc[s] \notin {"end", "init"} => mTransID[s] + mTransCnt \in TIDs
<1>1. mTransCnt \in Nat /\ s \in Nat /\ s < mTransCnt /\ LastTrans \in Nat
  BY ViewSCNAssumption DEF Slots
<1>2. PICK q \in 0 .. LastTrans : /\ mTransID[s] = q * mTransCnt + s
                                  /\ pc[s] \notin {"end", "init"} => q < LastTrans
  BY DEF TidInv
<1>3. SlotOf(mTransID[s]) = s /\ mTransID[s] \in Nat
  BY <1>2, SlotOfTID
<1>4. ASSUME NEW i \in Nat, NEW m \in Nat, NEW n \in Nat, i <= m
      PROVE  i * n <= m * n /\ i * n \in Nat /\ m * n \in Nat /\ (i + 1) * n = i * n + n
  <2>1. PICK d \in Nat : m = i + d
    <3>1. m - i \in Nat /\ m = i + (m - i)
      BY <1>4
    <3> QED BY <3>1
  <2>2. i * n \in Nat /\ d * n \in Nat /\ (i + d) * n = i * n + d * n /\ (i + 1) * n = i * n + n
    OBVIOUS
  <2> QED BY <2>1, <2>2
<1>5. ASSUME NEW i \in Nat, NEW m \in Nat, NEW n \in Nat, NEW j \in Nat, j < n, i <= m
      PROVE  i * n + j <= (m + 1) * n
  BY <1>5, <1>4
<1>6. mTransID[s] <= (LastTrans + 1) * mTransCnt
  BY <1>1, <1>2, <1>5
<1>7. ASSUME NEW i \in Nat, NEW m \in Nat, NEW n \in Nat, NEW j \in Nat, j < n, i < m
      PROVE  i * n + j + n <= (m + 1) * n
  <2>1. i + 1 <= m /\ i + 1 \in Nat
    BY <1>7
  <2>2. (i + 1) * n + j <= (m + 1) * n
    BY <2>1, <1>5, <1>7
  <2> QED BY <2>2, <1>4, <1>7
<1>8. pc[s] \notin {"end", "init"} => mTransID[s] + mTransCnt <= (LastTrans + 1) * mTransCnt
  BY <1>1, <1>2, <1>7
<1>9. (LastTrans + 1) * mTransCnt \in Nat
  BY <1>1
<1> QED BY <1>1, <1>3, <1>6, <1>8, <1>9 DEF TIDs

\* Two slots never have the same TID.
LEMMA TIDsDiffer ==
  ASSUME NEW r \in Slots, NEW s \in Slots, TidInv(r), TidInv(s), mTransID[r] = mTransID[s]
  PROVE  r = s
BY SlotTID

\* The inductive invariant includes that of the views.
LEMMA ViewPart == VInv /\ [RowNext]_visVars => VInv'
<1> SUFFICES ASSUME VInv, [RowNext]_visVars PROVE VInv'
  OBVIOUS
<1>1. ASSUME NEW s \in Slots, Between(s) \/ TakeCommitSCN(s) \/ EndStamped(s) \/ Decide(s)
      PROVE  Trans(s)
  BY <1>1 DEF Between, TakeCommitSCN, EndStamped, Decide, Trans, Committing, Ending
<1>2. ASSUME NEW s \in Slots, Write(s) PROVE UNCHANGED viewVars
  BY <1>2 DEF Write, InsertVersion, LockVersion, LimitVersion, SetAllocated, RemoveVersion, StartUndo, UndoNew,
     UndoLimit, UndoRemove, StampCreate, StampLimit
<1>3. ASSUME NEW s \in Slots, Read(s) PROVE UNCHANGED viewVars
  BY <1>3 DEF Read, ReadCreate, ReadLimit, ReadStatus, ReadCommitSCN, Recheck, ReadTID, Verdict, EndCheck
<1>4. [Next]_viewVars
  BY <1>1, <1>2, <1>3 DEF RowNext, Next, visVars
<1> QED BY <1>4, Kept

(***************************************************************************)
(* History is never rewritten (RowsGoOn).                                  *)
(***************************************************************************)

\* The versions and their history stand still.
RowsRest == UNCHANGED <<rowVars, creator, limiter>>

\* A transaction of ViewSCN, its taking an SCN aside, keeps the TIDs of the slots and the
\* SCNs of those that have committed until the slot takes the next TID.
LEMMA TransGoesOn ==
  ASSUME TypeOK, NEW s \in Slots, Trans(s), ~TakeSCN(s), RowsRest, UNCHANGED commitOf
  PROVE  RowsGoOn
<1> USE ViewSCNAssumption DEF TypeOK, Goes, Decided, transVars, stmtVars, scanVars
<1> DEFINE Slot(r) ==
      /\ mTransID'[r] \in Nat /\ mTransID[r] <= mTransID'[r]
      /\ mTransID'[r] = mTransID[r] /\ pc[r] \in Decided =>
           pc'[r] \in Decided /\ mCommitSCN'[r] = mCommitSCN[r]
<1>1. CASE Begin(s)
  <2>1. \A r \in Slots : Slot(r)
    BY <1>1 DEF Begin
  <2>2. lst' = lst /\ commitOf' = commitOf
    BY <1>1 DEF Begin
  <2> QED BY <2>1, <2>2 DEF RowsGoOn, VersionsGoOn, RowsRest, rowVars, Used
<1>2. CASE OpensView(s) \/ (\E k \in Stmts : EndStmt(s, k))
  <2>1. mTransID' = mTransID /\ mCommitSCN' = mCommitSCN /\ \A r \in Slots : pc'[r] = pc[r] \/ pc[r] \in {"run", "view", "set"}
    BY <1>2 DEF OpensView, LockView, GetView, SetView, EndStmt
  <2>3. \A r \in Slots : Slot(r)
    BY <2>1
  <2>2. lst' = lst /\ commitOf' = commitOf
    BY <1>2 DEF OpensView, LockView, GetView, SetView, EndStmt
  <2> QED BY <2>3, <2>2 DEF RowsGoOn, VersionsGoOn, RowsRest, rowVars, Used
<1>3. CASE PreCommit(s) \/ SetCommitSCN(s) \/ SetCommitStatus(s) \/ HoldView(s) \/ CommitEmpty(s)
  <2>1. \A r \in Slots : Slot(r)
    BY <1>3 DEF PreCommit, SetCommitSCN, SetCommitStatus, HoldView, CommitEmpty
  <2>2. lst' = lst /\ commitOf' = commitOf
    BY <1>3 DEF PreCommit, SetCommitSCN, SetCommitStatus, HoldView, CommitEmpty
  <2> QED BY <2>1, <2>2 DEF RowsGoOn, VersionsGoOn, RowsRest, rowVars, Used
<1>4. CASE Abort(s)
  <2>1. \A r \in Slots : Slot(r)
    BY <1>4 DEF Abort
  <2>2. lst' = lst /\ commitOf' = commitOf
    BY <1>4 DEF Abort
  <2> QED BY <2>1, <2>2 DEF RowsGoOn, VersionsGoOn, RowsRest, rowVars, Used
<1>5. CASE EndStatus(s)
  <2>1. \A r \in Slots : Slot(r)
    BY <1>5 DEF EndStatus
  <2>2. lst' = lst /\ commitOf' = commitOf
    BY <1>5 DEF EndStatus
  <2> QED BY <2>1, <2>2 DEF RowsGoOn, VersionsGoOn, RowsRest, rowVars, Used
<1>6. CASE NextTID(s)
  <2>1. \A r \in Slots : Slot(r)
    BY <1>6 DEF NextTID
  <2>2. lst' = lst /\ commitOf' = commitOf
    BY <1>6 DEF NextTID
  <2> QED BY <2>1, <2>2 DEF RowsGoOn, VersionsGoOn, RowsRest, rowVars, Used
<1>7. CASE InitSlot(s)
  <2>1. \A r \in Slots : Slot(r)
    BY <1>7 DEF InitSlot
  <2>2. lst' = lst /\ commitOf' = commitOf
    BY <1>7 DEF InitSlot
  <2> QED BY <2>1, <2>2 DEF RowsGoOn, VersionsGoOn, RowsRest, rowVars, Used
<1> QED BY <1>1, <1>2, <1>3, <1>4, <1>5, <1>6, <1>7 DEF Trans, Committing, Ending

\* The SCN taken at commit is later than the system SCN, and the transaction had none
\* (smmDatabase::getCommitSCN).
LEMMA TakeGoesOn ==
  ASSUME VInv, RowInv, NEW s \in Slots, TakeCommitSCN(s)
  PROVE  RowsGoOn
<1> USE ViewSCNAssumption
<1>1. TypeOK /\ CommitInv(s) /\ TidInv(s) /\ commitOf \in [TIDs \cup {NullTID} -> 0 .. LastSCN \cup {Infinite}]
  BY DEF VInv, RowInv, RowTypeOK
<1>2. /\ pc[s] = "precommit" /\ lst' = lst + 2 /\ mTransID' = mTransID /\ mCommitSCN' = mCommitSCN
      /\ pc' = [pc EXCEPT ![s] = "taken"] /\ commitOf' = [commitOf EXCEPT ![mTransID[s]] = lst + 2]
      /\ RowsRest
  BY DEF TakeCommitSCN, TakeSCN, Goes, transVars, RowsRest
<1>3. commitOf[mTransID[s]] = Infinite /\ mTransID[s] \in TIDs
  BY <1>1, <1>2, SlotTID DEF CommitInv, Uncommitted
<1>4. lst \in Nat /\ mTransID \in [Slots -> Nat] /\ \A r \in Slots \ {s} : pc'[r] = pc[r]
  BY <1>1, <1>2 DEF TypeOK
<1>5. \A t \in TIDs \cup {NullTID} :
        commitOf'[t] = commitOf[t] \/ (commitOf[t] = Infinite /\ commitOf'[t] = lst + 2)
  BY <1>1, <1>2, <1>3
<1>6. ASSUME NEW r \in Slots, pc[r] \in Decided
      PROVE  pc'[r] \in Decided /\ commitOf'[mTransID[r]] = commitOf[mTransID[r]]
  <2>1. r # s
    BY <1>2, <1>6 DEF Decided
  <2>2. mTransID[r] # mTransID[s] /\ mTransID[r] \in TIDs
    BY <2>1, TIDsDiffer, SlotTID DEF RowInv
  <2> QED BY <2>1, <2>2, <1>1, <1>2, <1>4, <1>6
<1> QED BY <1>2, <1>4, <1>5, <1>6 DEF RowsGoOn, VersionsGoOn, RowsRest, rowVars, Used

(***************************************************************************)
(* What a reader knows stays true.                                         *)
(***************************************************************************)

\* Who committed before a view was taken does not change any more, nor does the
\* snapshot: SCNs to come are later than every view there is.
LEMMA PastKept ==
  ASSUME VInv, RowInv, RowsGoOn, NEW at \in Finite, at <= ViewOf(lst)
  PROVE  /\ \A t \in TIDs \cup {NullTID} : commitOf'[t] <= at <=> commitOf[t] <= at
         /\ \A v \in Used : /\ Began(v, at)' <=> Began(v, at)
                            /\ Over(v, at)' <=> Over(v, at)
                            /\ InSnapshot(v, at)' <=> InSnapshot(v, at)
<1> USE ViewSCNAssumption
<1>1. TypeOK /\ RowTypeOK
  BY DEF VInv, RowInv
<1>2. lst \in Nat /\ at \in Nat /\ at < Infinite /\ at < lst + 2 /\ Infinite \in Nat
  BY <1>1 DEF TypeOK, Finite, Infinite, ViewOf
<1>3. \A t \in TIDs \cup {NullTID} : commitOf[t] \in Nat
  BY <1>1, <1>2 DEF RowTypeOK
<1>4. \A t \in TIDs \cup {NullTID} :
        commitOf'[t] = commitOf[t] \/ (commitOf[t] = Infinite /\ commitOf'[t] = lst + 2)
  BY DEF RowsGoOn, VersionsGoOn
<1>5. \A t \in TIDs \cup {NullTID} : commitOf'[t] \in Nat
  BY <1>2, <1>3, <1>4
<1>6. \A i \in Nat : i = Infinite \/ i = lst + 2 => ~(i <= at)
  BY <1>2
<1>7. \A t \in TIDs \cup {NullTID} : commitOf'[t] <= at <=> commitOf[t] <= at
  BY <1>3, <1>4, <1>5, <1>6
<1>8. ASSUME NEW v \in Used
      PROVE  /\ Began(v, at)' <=> Began(v, at)
             /\ Over(v, at)' <=> Over(v, at)
             /\ InSnapshot(v, at)' <=> InSnapshot(v, at)
  <2>1. creator[v] \in TIDs \cup {NullTID} /\ limiter[v] \in TIDs \cup {NullTID}
    BY <1>1 DEF RowTypeOK
  <2>2. /\ creator'[v] = creator[v]
        /\ v \in deleted => v \in deleted'
        /\ v \in deleted' => v \in deleted \/ commitOf[creator[v]] = Infinite
        /\ \/ limiter'[v] = limiter[v]
           \/ limiter[v] = NullTID /\ limiter'[v] \in TIDs /\ commitOf[limiter'[v]] = Infinite
           \/ limiter'[v] = NullTID /\ commitOf[limiter[v]] = Infinite
    BY DEF RowsGoOn, VersionsGoOn
  <2>3. Began(v, at)' <=> Began(v, at)
    BY <2>1, <2>2, <1>7 DEF Began
  <2>4. Over(v, at)' <=> Over(v, at)
    <3>1. CASE limiter'[v] = limiter[v]
      BY <3>1, <2>1, <1>7 DEF Over
    <3>2. CASE limiter[v] = NullTID /\ limiter'[v] \in TIDs /\ commitOf[limiter'[v]] = Infinite
      <4>1. ~(commitOf[limiter'[v]] <= at)
        BY <3>2, <1>3, <1>6
      <4> QED BY <4>1, <3>2, <1>7 DEF Over
    <3>3. CASE limiter'[v] = NullTID /\ commitOf[limiter[v]] = Infinite
      <4>1. ~(commitOf[limiter[v]] <= at)
        BY <3>3, <2>1, <1>3, <1>6
      <4> QED BY <4>1, <3>3 DEF Over
    <3> QED BY <3>1, <3>2, <3>3, <2>2
  <2>5. InSnapshot(v, at) <=> v \notin deleted /\ Began(v, at) /\ ~Over(v, at)
    BY <2>1, <1>2, <1>3 DEF InSnapshot, Began, Over
  <2>6. limiter'[v] \in TIDs \cup {NullTID}
    BY <2>1, <2>2
  <2>7. InSnapshot(v, at)' <=> v \notin deleted' /\ Began(v, at)' /\ ~Over(v, at)'
    BY <2>6, <1>2, <1>5 DEF InSnapshot, Began, Over
  <2>8. v \in deleted' /\ v \notin deleted => ~Began(v, at)
    BY <2>1, <2>2, <1>3, <1>6 DEF Began
  <2> QED BY <2>2, <2>3, <2>4, <2>5, <2>7, <2>8
<1> QED BY <1>7, <1>8

\* A TID that was reached stays so, and comes back in no slot.
LEMMA KnownKept ==
  ASSUME TypeOK, RowsGoOn, NEW t \in Nat, Known(t)
  PROVE  Known(t)' /\ (Current(t)' => Current(t))
<1>1. t \in TIDs /\ SlotOf(t) \in Slots /\ t <= mTransID[SlotOf(t)]
  BY SlotOfIsSlot DEF Known
<1>2. /\ mTransID[SlotOf(t)] \in Nat /\ mTransID'[SlotOf(t)] \in Nat
      /\ mTransID[SlotOf(t)] <= mTransID'[SlotOf(t)]
  BY <1>1 DEF TypeOK, RowsGoOn, VersionsGoOn
<1>3. \A i, j, k \in Nat : i <= j /\ j <= k => i <= k /\ (k = i => j = i)
  OBVIOUS
<1> QED BY <1>1, <1>2, <1>3 DEF Known, Current

\* A reader that does not move keeps what it knows of its version, whatever writers do.
LEMMA ReaderKept ==
  ASSUME VInv, RowInv, RowsGoOn, NEW r \in Slots, op'[r] = op[r]
  PROVE  ReadInv(r)'
<1> USE ViewSCNAssumption
<1>0. PICK o : o = op[r]
  OBVIOUS
<1>1. TypeOK /\ RowTypeOK /\ ReadInv(r) /\ o \in OpType /\ lst' \in Nat /\ lst <= lst'
  BY <1>0 DEF VInv, RowInv, RowsGoOn, VersionsGoOn
<1>2. SUFFICES ASSUME o.step \in Reading PROVE ReadInv(r)'
  BY <1>0 DEF ReadInv, ReadOK
<1>3. /\ o.v \in Used /\ o.view <= ViewOf(lst)
      /\ o.step = "limit" => o.done = {}
      /\ o.step # "seen" => CreateCopy(o)
      /\ o.step \in {"status", "scn", "tid"} => LimitCopy(o)
      /\ o.step \in {"scn", "tid"} => AskInv(o)
      /\ o.step = "seen" =>
           /\ o.seen => Began(o.v, o.view)
           /\ ~o.late => (o.seen <=> InSnapshot(o.v, o.view))
  BY <1>0, <1>1, <1>2 DEF ReadInv, ReadOK
<1>4. lst \in Nat /\ o.view \in Finite /\ o.v \in Used' /\ creator'[o.v] = creator[o.v]
  BY <1>1, <1>3 DEF TypeOK, OpType, RowsGoOn, VersionsGoOn
<1>5. o.view <= ViewOf(lst)'
  <2>1. \A i, j, n \in Nat : i <= j /\ n <= i + 1 => n <= j + 1
    OBVIOUS
  <2>2. o.view \in Nat
    BY <1>4 DEF Finite
  <2> QED BY <2>1, <2>2, <1>1, <1>3, <1>4 DEF ViewOf
<1>6. /\ \A t \in TIDs \cup {NullTID} : commitOf'[t] <= o.view <=> commitOf[t] <= o.view
      /\ Began(o.v, o.view)' <=> Began(o.v, o.view)
      /\ Over(o.v, o.view)' <=> Over(o.v, o.view)
      /\ InSnapshot(o.v, o.view)' <=> InSnapshot(o.v, o.view)
  BY <1>3, <1>4, PastKept
<1>7. o.create.of \in Nat /\ o.limit.of \in Nat
  BY <1>1 DEF OpType, Stamp
<1>8. CreateCopy(o) => CreateCopy(o)'
  <2> HIDE <1>0
  <2> QED BY <1>4, <1>6 DEF CreateCopy
<1>9. LimitCopy(o) => LimitCopy(o)'
  <2>1. Known(o.limit.of) => Known(o.limit.of)' /\ o.limit.of \in TIDs
    BY <1>1, <1>7, KnownKept DEF Known
  <2> QED BY <2>1, <1>6 DEF LimitCopy
<1>10. ASSUME o.step \in {"scn", "tid"} PROVE AskInv(o)'
  <2>1. PICK t : t = o[Field(o)].of
    OBVIOUS
  <2>2. t \in Nat /\ Known(t)
    <3>1. CASE Field(o) = "create"
      <4>1. o[Field(o)] = o.create
        BY <3>1
      <4>2. t = creator[o.v] /\ t \in Nat /\ CreateInv(o.v)
        BY <4>1, <2>1, <1>3, <1>7, <1>10 DEF AskInv, Asks, CreateCopy, RowInv
      <4> QED BY <4>2 DEF CreateInv, NullTID
    <3>2. CASE Field(o) = "limit"
      <4>1. o[Field(o)] = o.limit
        BY <3>2
      <4> QED BY <4>1, <2>1, <1>3, <1>7, <1>10 DEF AskInv, Asks, LimitCopy
    <3> QED BY <3>1, <3>2 DEF Field
  <2>3. Known(t)' /\ (Current(t)' => Current(t)) /\ SlotOf(t) \in Slots /\ t \in TIDs
    BY <2>2, <1>1, KnownKept, SlotOfIsSlot DEF Known
  <2>4. AskInv(o)
    BY <1>3, <1>10
  <2>5. ASSUME Current(t)' PROVE Asked(o, t)'
    <3>1. Current(t) /\ Asked(o, t)
      BY <2>1, <2>3, <2>4, <2>5 DEF AskInv
    <3>2. mTransID'[SlotOf(t)] = mTransID[SlotOf(t)] /\ mTransID[SlotOf(t)] = t
      BY <3>1, <2>5 DEF Current
    <3>3. pc[SlotOf(t)] \in Decided =>
             /\ pc'[SlotOf(t)] \in Decided /\ mCommitSCN'[SlotOf(t)] = mCommitSCN[SlotOf(t)]
             /\ commitOf'[t] = commitOf[t]
      BY <3>2, <2>3 DEF RowsGoOn, VersionsGoOn
    <3> QED BY <3>1, <3>3, <2>3, <1>6 DEF Asked
  <2> QED BY <2>1, <2>4, <2>5 DEF AskInv
<1>11. op'[r] = o
  BY <1>0
<1> QED BY <1>2, <1>3, <1>4, <1>5, <1>6, <1>8, <1>9, <1>10, <1>11 DEF ReadInv, ReadOK

(***************************************************************************)
(* What stands in versions stays true when a step leaves them alone.       *)
(***************************************************************************)

\* Only a transaction in the middle of its commit gets an SCN, and none that rolls
\* back stops doing so before its TID is given up.
NeverGoesOn ==
  /\ \A t \in TIDs : commitOf'[t] # commitOf[t] => Current(t) /\ pc[SlotOf(t)] = "precommit"
  /\ \A r \in Slots : mTransID'[r] = mTransID[r] /\ Undoing(r) => Undoing(r)'

\* What has been rolled back is never committed.
LEMMA NeverKept ==
  ASSUME TypeOK, RowsGoOn, NeverGoesOn, NEW t \in Nat, Never(t)
  PROVE  Never(t)'
<1>1. Known(t)' /\ (Current(t)' => Current(t)) /\ SlotOf(t) \in Slots /\ t \in TIDs
  BY KnownKept, SlotOfIsSlot DEF Never, Known
<1>2. commitOf'[t] = commitOf[t]
  BY <1>1 DEF Never, NeverGoesOn, Undoing
<1>3. Current(t)' => Undoing(SlotOf(t))'
  BY <1>1 DEF Never, NeverGoesOn, Current
<1> QED BY <1>1, <1>2, <1>3 DEF Never

\* The SCN of a transaction that has committed is that for ever.
LEMMA CommittedKept ==
  ASSUME RowsGoOn, NEW t \in TIDs \cup {NullTID}, commitOf[t] # Infinite
  PROVE  commitOf'[t] = commitOf[t]
BY DEF RowsGoOn, VersionsGoOn

Changing == {"locked", "limited", "unlimit"}

\* A step that changes no version keeps what is true of them, as long as no slot gives
\* up its TID before it is clean (smxTrans::end after processOIDList and undo).
LEMMA RestKept ==
  ASSUME VInv, RowInv, RowsGoOn, NeverGoesOn, RowsRest,
         \A r \in Slots : op'[r] = op[r] \/ (op[r].step \notin Changing /\ op'[r].step \notin Changing),
         \A r \in Slots : mTransID'[r] = mTransID[r] \/ (Clean(r) /\ op[r].step = "none")
  PROVE  /\ \A v \in Used' : CreateInv(v)' /\ LimitInv(v)' /\ ChainInv(v)'
         /\ \A r \in Slots : WriteInv(r)'
<1> USE ViewSCNAssumption
<1>1. TypeOK /\ RowTypeOK
  BY DEF VInv, RowInv
<1>2. /\ create' = create /\ limit' = limit /\ prev' = prev /\ deleted' = deleted
      /\ creator' = creator /\ limiter' = limiter /\ Used' = Used
  BY DEF RowsRest, rowVars, Used
<1>3. ASSUME NEW t \in Nat, Known(t), Current(t), t \notin {mTransID[r] : r \in {q \in Slots : Clean(q)}}
      PROVE  Current(t)'
  <2>1. SlotOf(t) \in Slots /\ mTransID[SlotOf(t)] = t
    BY <1>3, SlotOfIsSlot DEF Current
  <2>2. mTransID'[SlotOf(t)] = mTransID[SlotOf(t)]
    BY <2>1, <1>3
  <2> QED BY <2>1, <2>2 DEF Current
<1>4. ASSUME NEW v \in Used PROVE CreateInv(v)'
  <2>0. PICK c : c = creator[v]
    OBVIOUS
  <2>1. CreateInv(v) /\ create[v] \in Stamp /\ c \in TIDs \cup {NullTID} /\ \A t \in TIDs : t \in Nat
    BY <2>0, <1>1 DEF RowInv, RowTypeOK, TIDs
  <2>2. c # NullTID => Known(c)'
    <3>1. c # NullTID => Known(c) /\ c \in Nat
      BY <2>0, <2>1 DEF CreateInv
    <3> QED BY <3>1, <1>1, KnownKept
  <2>3. create[v].kind = "scn" => create[v].of = commitOf'[c] /\ commitOf'[c] # Infinite
    BY <2>0, <2>1, CommittedKept DEF CreateInv
  <2>4. create[v].kind = "inf" => create[v].of = c /\ (v \in deleted \/ Current(c)')
    <3>1. SUFFICES ASSUME create[v].kind = "inf", v \notin deleted
                   PROVE  Current(c)'
      BY <2>0, <2>1 DEF CreateInv
    <3>2. c \in Nat /\ create[v] = Inf(c) /\ Known(c) /\ Current(c)
      BY <3>1, <2>0, <2>1 DEF CreateInv, Stamp, Inf, NullTID
    <3>3. ASSUME NEW r \in Slots, Clean(r), c = mTransID[r] PROVE FALSE
      BY <3>1, <3>2, <3>3 DEF Clean, Made
    <3> QED BY <3>2, <3>3, <1>3
  <2>5. v \in deleted => create[v].kind = "inf" /\ Never(c)'
    <3>1. v \in deleted => create[v].kind = "inf" /\ Never(c) /\ c \in Nat
      BY <2>0, <2>1 DEF CreateInv, Stamp
    <3> QED BY <3>1, <1>1, NeverKept
  <2>6. c = creator'[v]
    BY <2>0, <1>2
  <2> QED BY <2>1, <2>2, <2>3, <2>4, <2>5, <2>6, <1>2 DEF CreateInv
<1>5. ASSUME NEW v \in Used PROVE LimitInv(v)'
  <2>0. PICK c : c = limiter[v]
    OBVIOUS
  <2>1. LimitInv(v) /\ limit[v] \in Stamp /\ c \in TIDs \cup {NullTID}
    BY <2>0, <1>1 DEF RowInv, RowTypeOK
  <2>2. limit[v].kind = "lock" =>
          \E s \in Slots : limit[v].of = mTransID'[s] /\ op'[s].step = "locked" /\ op'[s].v = v
    <3>1. SUFFICES ASSUME limit[v].kind = "lock"
                   PROVE  \E s \in Slots : limit[v].of = mTransID'[s] /\ op'[s].step = "locked" /\ op'[s].v = v
      OBVIOUS
    <3>2. PICK s \in Slots : limit[v].of = mTransID[s] /\ op[s].step = "locked" /\ op[s].v = v
      BY <3>1, <2>1 DEF LimitInv
    <3>3. op'[s] = op[s] /\ mTransID'[s] = mTransID[s]
      BY <3>2 DEF Changing
    <3> QED BY <3>2, <3>3
  <2>3. limit[v].kind = "inf" => limit[v].of = c /\ Known(c)' /\ Current(c)'
    <3>1. SUFFICES ASSUME limit[v].kind = "inf"
                   PROVE  limit[v].of = c /\ Known(c)' /\ Current(c)'
      OBVIOUS
    <3>2. limit[v].of = c /\ c \in Nat /\ limit[v] = Inf(c) /\ Known(c) /\ Current(c)
      BY <3>1, <2>0, <2>1 DEF LimitInv, Stamp, Inf
    <3>3. ASSUME NEW r \in Slots, Clean(r), c = mTransID[r] PROVE FALSE
      BY <3>2, <3>3 DEF Clean, Limited
    <3>4. Current(c)'
      BY <3>2, <3>3, <1>3
    <3> QED BY <3>2, <3>4, <1>1, KnownKept
  <2>4. limit[v].kind = "scn" => limit[v].of = commitOf'[c] /\ commitOf'[c] # Infinite
    BY <2>0, <2>1, CommittedKept DEF LimitInv
  <2>5. c = limiter'[v]
    BY <2>0, <1>2
  <2> QED BY <2>0, <2>1, <2>2, <2>3, <2>4, <2>5, <1>2 DEF LimitInv
<1>6. ASSUME NEW v \in Used PROVE ChainInv(v)'
  BY <1>2 DEF ChainInv, RowInv
<1>7. ASSUME NEW r \in Slots PROVE WriteInv(r)'
  <2>1. WriteInv(r)
    BY DEF RowInv
  <2>2. CASE op'[r].step \notin Changing
    BY <2>2 DEF WriteInv, Changing
  <2>3. CASE op'[r].step \in Changing
    <3>1. op'[r] = op[r] /\ mTransID'[r] = mTransID[r]
      BY <2>3 DEF Changing
    <3> QED BY <3>1, <2>1, <1>2 DEF WriteInv
  <2> QED BY <2>2, <2>3
<1> QED BY <1>2, <1>4, <1>5, <1>6, <1>7

\* What a step leaves alone of slot r keeps its invariant.
LEMMA AsideKept ==
  ASSUME NEW r \in Slots, CommitInv(r), TidInv(r),
         pc'[r] = pc[r], mStatus'[r] = mStatus[r], mCommitSCN'[r] = mCommitSCN[r],
         mTransID'[r] = mTransID[r], view'[r] = view[r], legacy'[r] = legacy[r], scn'[r] = scn[r],
         commitOf'[mTransID[r]] = commitOf[mTransID[r]],
         pc[r] # "run" /\ Clean(r) => Clean(r)', op'[r].step # "none" => pc[r] = "run"
  PROVE  CommitInv(r)' /\ TidInv(r)'
<1>1. Open(r)' = Open(r)
  BY DEF Open
<1>2. TidInv(r)'
  BY DEF TidInv
<1>3. PICK c \in BOOLEAN : c = Clean(r)
  BY DEF Clean
<1>4. PICK d \in BOOLEAN : d = Clean(r)'
  BY DEF Clean
<1>5. CommitInv(r)'
  BY <1>1, <1>3, <1>4 DEF CommitInv, Uncommitted
<1> QED BY <1>2, <1>5

(***************************************************************************)
(* The steps of a reader (smnManager::checkSCN, getTransCommitSCN).        *)
(***************************************************************************)

\* The copy of the creator's SCN is that of the row.
LEMMA ReadCreateSteps ==
  ASSUME VInv, RowInv, NEW s \in Slots, NEW k \in Stmts, NEW v \in Versions, ReadCreate(s, k, v)
  PROVE  \E x \in OpType : op' = [op EXCEPT ![s] = x] /\ ReadOK(x)
<1> USE ViewSCNAssumption, RowVisibilityAssumption
<1> DEFINE x == [Resting EXCEPT
                   !.step = IF v \in deleted THEN "seen" ELSE "limit",
                   !.v = v, !.view = view[s][k], !.create = create[v]]
<1>1. TypeOK /\ RowTypeOK /\ SlotInv(s) /\ v \in Used /\ k \in Open(s) /\ CreateInv(v)
  BY DEF VInv, RowInv, ReadCreate
<1>2. view[s][k] \in Finite /\ view[s][k] <= ViewOf(lst) /\ create[v] \in Stamp
      /\ creator[v] \in TIDs \cup {NullTID}
  BY <1>1 DEF TypeOK, RowTypeOK, SlotInv, Open
<1>3. x \in OpType
  <2>1. FreeRow \in Stamp
    BY DEF FreeRow, Stamp
  <2>2. v \in 0 .. VersionCnt /\ 0 \in 0 .. LastSCN \cup {Infinite}
    BY DEF Versions
  <2>3. CASE v \in deleted
    BY <2>1, <2>2, <2>3, <1>2 DEF Resting, OpType, Reading
  <2>4. CASE v \notin deleted
    BY <2>1, <2>2, <2>4, <1>2 DEF Resting, OpType, Reading
  <2> QED BY <2>3, <2>4
<1>4. /\ x.step = (IF v \in deleted THEN "seen" ELSE "limit") /\ x.v = v /\ x.view = view[s][k]
      /\ x.create = create[v] /\ x.done = {} /\ ~x.seen
  BY DEF Resting
<1>5. CreateCopy(x)
  BY <1>1, <1>4 DEF CreateCopy, CreateInv, Began
<1>6. v \in deleted => ~InSnapshot(v, x.view)
  BY DEF InSnapshot
<1>7. ReadOK(x)
  <2> HIDE DEF x
  <2> QED BY <1>1, <1>2, <1>4, <1>5, <1>6 DEF ReadOK
<1>8. op' = [op EXCEPT ![s] = x]
  BY DEF ReadCreate
<1> QED BY <1>3, <1>7, <1>8

\* The copy of who replaced the version is that of the row.
LEMMA ReadLimitSteps ==
  ASSUME VInv, RowInv, NEW s \in Slots, ReadLimit(s)
  PROVE  \E x \in OpType : op' = [op EXCEPT ![s] = x] /\ ReadOK(x)
<1> USE ViewSCNAssumption, RowVisibilityAssumption
<1>0. PICK o : o = op[s]
  OBVIOUS
<1>1. TypeOK /\ RowTypeOK /\ o \in OpType /\ op \in [Slots -> OpType] /\ ReadOK(o) /\ o.step = "limit"
  BY <1>0 DEF VInv, RowInv, ReadInv, ReadLimit, Does
<1>2. o.v \in Used /\ o.view <= ViewOf(lst) /\ o.done = {} /\ CreateCopy(o)
  BY <1>1 DEF ReadOK, Reading
<1>3. LimitInv(o.v) /\ limit[o.v] \in Stamp /\ limiter[o.v] \in TIDs \cup {NullTID}
  BY <1>1, <1>2 DEF RowInv, RowTypeOK
<1> DEFINE x == [o EXCEPT !.step = "status", !.limit = limit[o.v]]
<1>4. x \in OpType
  BY <1>1, <1>3 DEF OpType, Reading
<1>5. /\ x.step = "status" /\ x.v = o.v /\ x.view = o.view /\ x.create = o.create /\ x.limit = limit[o.v]
      /\ x.done = {} /\ x.late = o.late
  BY <1>1, <1>2 DEF OpType
<1>6. CreateCopy(x)
  BY <1>2, <1>5 DEF CreateCopy
<1>7. LimitCopy(x)
  <2>1. limiter[o.v] # NullTID => (commitOf[limiter[o.v]] <= o.view <=> Over(o.v, o.view))
    BY DEF Over
  <2>2. limiter[o.v] = NullTID => ~Over(o.v, o.view)
    BY DEF Over
  <2>3. limit[o.v].kind \in {"scn", "inf"} => limiter[o.v] # NullTID
    BY <1>3 DEF LimitInv
  <2> QED BY <2>1, <2>2, <2>3, <1>3, <1>5 DEF LimitCopy, LimitInv
<1>8. ReadOK(x)
  <2> HIDE DEF x
  <2> QED BY <1>2, <1>5, <1>6, <1>7 DEF ReadOK
<1>9. op' = [op EXCEPT ![s] = x]
  BY <1>0, <1>1 DEF ReadLimit, OpType
<1> QED BY <1>4, <1>8, <1>9

\* What the status of a slot says of its transaction (smmDatabase::getCommitSCN: the
\* SCN is in the slot before the status says COMMIT).
LEMMA StatusSays ==
  ASSUME VInv, RowInv, NEW r \in Slots
  PROVE  /\ mStatus[r] \in {"BEGIN", "ABORT"} => commitOf[mTransID[r]] = Infinite
         /\ mStatus[r] = "COMMIT" => pc[r] \in Decided /\ commitOf[mTransID[r]] = mCommitSCN[r]
<1>1. /\ CommitInv(r)
      /\ pc[r] \in {"end", "run", "view", "set", "precommit", "taken", "scnset", "committed",
                    "finish", "ended", "init"}
  BY DEF VInv, RowInv, TypeOK
<1>2. mStatus[r] = "BEGIN" => pc[r] \in {"run", "view", "set"}
  BY <1>1 DEF CommitInv
<1>3. mStatus[r] = "COMMIT" => pc[r] \in {"committed", "finish"}
  BY <1>1 DEF CommitInv
<1> QED BY <1>1, <1>2, <1>3 DEF CommitInv, Uncommitted, Decided

\* The status that is read says the truth about the TID the slot has then.
LEMMA ReadStatusSteps ==
  ASSUME VInv, RowInv, NEW s \in Slots, ReadStatus(s)
  PROVE  \E x \in OpType : op' = [op EXCEPT ![s] = x] /\ ReadOK(x)
<1> USE ViewSCNAssumption, RowVisibilityAssumption
<1>0. PICK o : o = op[s]
  OBVIOUS
<1>1. TypeOK /\ RowTypeOK /\ o \in OpType /\ op \in [Slots -> OpType] /\ ReadOK(o)
      /\ o.step = "status" /\ ~Resolved(o)
  BY <1>0 DEF VInv, RowInv, ReadInv, ReadStatus, Does
<1>2. o.v \in Used /\ o.view <= ViewOf(lst) /\ CreateCopy(o) /\ LimitCopy(o)
  BY <1>1 DEF ReadOK, Reading
<1>3. CASE Asks(o)
  <2>1. PICK t : t = o[Field(o)].of
    OBVIOUS
  <2>2. t \in Nat /\ SlotOf(t) \in Slots
    <3>1. Field(o) \in {"create", "limit"}
      BY DEF Field
    <3>2. o[Field(o)] \in Stamp
      BY <3>1, <1>1 DEF OpType
    <3>3. t \in Nat
      BY <2>1, <3>2 DEF Stamp
    <3> QED BY <3>3, SlotOfIsSlot
  <2> DEFINE x == [o EXCEPT !.step = "scn", !.status = mStatus[SlotOf(t)]]
  <2>3. x \in OpType
    BY <2>2, <1>1 DEF OpType, Reading, TypeOK
  <2>4. /\ x.step = "scn" /\ x.v = o.v /\ x.view = o.view /\ x.create = o.create /\ x.limit = o.limit
        /\ x.done = o.done /\ x.late = o.late /\ x.status = mStatus[SlotOf(t)]
    BY <1>1 DEF OpType
  <2>5. CreateCopy(x) /\ LimitCopy(x)
    BY <1>2, <2>4 DEF CreateCopy, LimitCopy
  <2>6. Field(x) = Field(o)
    BY <2>4 DEF Field
  <2>7. x[Field(x)] = o[Field(o)]
    <3>1. CASE Field(o) = "create"
      BY <3>1, <2>4, <2>6
    <3>2. CASE Field(o) = "limit"
      BY <3>2, <2>4, <2>6
    <3> QED BY <3>1, <3>2 DEF Field
  <2>8. ASSUME Current(t) PROVE Asked(x, t)
    <3>1. t = mTransID[SlotOf(t)]
      BY <2>8 DEF Current
    <3>2. /\ mStatus[SlotOf(t)] \in {"BEGIN", "ABORT"} => commitOf[t] = Infinite
          /\ mStatus[SlotOf(t)] = "COMMIT" => pc[SlotOf(t)] \in Decided /\ commitOf[t] = mCommitSCN[SlotOf(t)]
      BY <3>1, <2>2, StatusSays
    <3>3. ~(Infinite <= x.view)
      BY <2>4, <1>1 DEF OpType, Finite, Infinite
    <3> QED BY <3>2, <3>3, <2>4 DEF Asked
  <2>9. AskInv(x)
    <3> HIDE DEF x
    <3> QED BY <2>1, <2>4, <2>7, <2>8, <1>1, <1>3 DEF AskInv, Asks, Resolved
  <2>10. ReadOK(x)
    <3> HIDE DEF x
    <3> QED BY <2>4, <2>5, <2>9, <1>2 DEF ReadOK
  <2>11. op' = [op EXCEPT ![s] = x]
    BY <2>1, <1>0, <1>3 DEF ReadStatus
  <2> QED BY <2>3, <2>10, <2>11
<1>4. CASE ~Asks(o)
  <2>1. PICK f \in {"create", "limit"} : f = Field(o)
    BY DEF Field
  <2> DEFINE x == [o EXCEPT !.done = o.done \cup {f}]
  <2>2. x \in OpType
    <3>1. o.done \cup {f} \in SUBSET {"create", "limit"}
      BY <2>1, <1>1 DEF OpType
    <3> QED BY <3>1, <1>1 DEF OpType
  <2>3. /\ x.step = "status" /\ x.v = o.v /\ x.view = o.view /\ x.create = o.create /\ x.limit = o.limit
        /\ x.done = o.done \cup {f} /\ x.late = o.late
    BY <1>1 DEF OpType
  <2>4. CreateCopy(x)
    <3>1. f = "create" => o.create.kind # "inf"
      BY <2>1, <1>4 DEF Asks
    <3>2. "create" \in x.done /\ x.create.kind = "inf" => "create" \in o.done
      BY <3>1, <2>3
    <3> HIDE DEF x
    <3> QED BY <3>2, <2>3, <1>2 DEF CreateCopy
  <2>5. LimitCopy(x)
    <3>1. f = "limit" => o.limit.kind # "inf"
      BY <2>1, <1>4 DEF Asks
    <3>2. "limit" \in x.done /\ x.limit.kind = "inf" => "limit" \in o.done
      BY <3>1, <2>3
    <3> HIDE DEF x
    <3> QED BY <3>2, <2>3, <1>2 DEF LimitCopy
  <2>6. ReadOK(x)
    <3> HIDE DEF x
    <3> QED BY <2>3, <2>4, <2>5, <1>2 DEF ReadOK
  <2>7. op' = [op EXCEPT ![s] = x]
    BY <2>1, <1>0, <1>1, <1>4 DEF ReadStatus, OpType
  <2> QED BY <2>2, <2>6, <2>7
<1> QED BY <1>3, <1>4

\* The SCN that is read is the one of the TID the slot has then.
LEMMA ReadCommitSCNSteps ==
  ASSUME VInv, RowInv, NEW s \in Slots, ReadCommitSCN(s)
  PROVE  \E x \in OpType : op' = [op EXCEPT ![s] = x] /\ ReadOK(x)
<1> USE ViewSCNAssumption, RowVisibilityAssumption
<1>0. PICK o : o = op[s]
  OBVIOUS
<1>1. TypeOK /\ RowTypeOK /\ o \in OpType /\ op \in [Slots -> OpType] /\ ReadOK(o) /\ o.step = "scn"
  BY <1>0 DEF VInv, RowInv, ReadInv, ReadCommitSCN, Does
<1>2. o.v \in Used /\ o.view <= ViewOf(lst) /\ CreateCopy(o) /\ LimitCopy(o) /\ AskInv(o)
  BY <1>1 DEF ReadOK, Reading
<1>3. PICK t : t = o[Field(o)].of
  OBVIOUS
<1>4. t \in Nat /\ SlotOf(t) \in Slots
  <2>1. Field(o) \in {"create", "limit"}
    BY DEF Field
  <2>2. o[Field(o)] \in Stamp
    BY <2>1, <1>1 DEF OpType
  <2>3. t \in Nat
    BY <1>3, <2>2 DEF Stamp
  <2> QED BY <2>3, SlotOfIsSlot
<1> DEFINE x == [o EXCEPT !.step = "tid", !.scn = mCommitSCN[SlotOf(t)]]
<1>5. x \in OpType
  BY <1>4, <1>1 DEF OpType, Reading, TypeOK
<1>6. /\ x.step = "tid" /\ x.v = o.v /\ x.view = o.view /\ x.create = o.create /\ x.limit = o.limit
      /\ x.done = o.done /\ x.late = o.late /\ x.status = o.status /\ x.scn = mCommitSCN[SlotOf(t)]
  BY <1>1 DEF OpType
<1>7. CreateCopy(x) /\ LimitCopy(x)
  BY <1>2, <1>6 DEF CreateCopy, LimitCopy
<1>8. Field(x) = Field(o)
  BY <1>6 DEF Field
<1>9. x[Field(x)] = o[Field(o)]
  <2>1. CASE Field(o) = "create"
    BY <2>1, <1>6, <1>8
  <2>2. CASE Field(o) = "limit"
    BY <2>2, <1>6, <1>8
  <2> QED BY <2>1, <2>2 DEF Field
<1>10. AskInv(x)
  <2> HIDE DEF x
  <2>1. Current(t) => Asked(x, t)
    BY <1>2, <1>3, <1>6 DEF AskInv, Asked
  <2> QED BY <2>1, <1>2, <1>3, <1>6, <1>9 DEF AskInv, Asks, Resolved
<1>11. ReadOK(x)
  <2> HIDE DEF x
  <2> QED BY <1>2, <1>6, <1>7, <1>10 DEF ReadOK
<1>12. op' = [op EXCEPT ![s] = x]
  BY <1>0, <1>1, <1>3 DEF ReadCommitSCN, OpType
<1> QED BY <1>5, <1>11, <1>12

\* In status PRECOMMIT the reader asks again: it keeps its copies.
LEMMA RecheckSteps ==
  ASSUME VInv, RowInv, NEW s \in Slots, Recheck(s)
  PROVE  \E x \in OpType : op' = [op EXCEPT ![s] = x] /\ ReadOK(x)
<1>0. PICK o : o = op[s]
  OBVIOUS
<1>1. o \in OpType /\ op \in [Slots -> OpType] /\ ReadOK(o) /\ o.step = "tid"
  BY <1>0 DEF RowInv, ReadInv, Recheck, Does
<1>2. o.v \in Used /\ o.view <= ViewOf(lst) /\ CreateCopy(o) /\ LimitCopy(o)
  BY <1>1 DEF ReadOK, Reading
<1> DEFINE x == [o EXCEPT !.step = "status"]
<1>3. x \in OpType
  BY <1>1 DEF OpType, Reading
<1>4. /\ x.step = "status" /\ x.v = o.v /\ x.view = o.view /\ x.create = o.create /\ x.limit = o.limit
      /\ x.done = o.done /\ x.late = o.late
  BY <1>1 DEF OpType
<1>5. CreateCopy(x) /\ LimitCopy(x)
  BY <1>2, <1>4 DEF CreateCopy, LimitCopy
<1>6. ReadOK(x)
  <2> HIDE DEF x
  <2> QED BY <1>2, <1>4, <1>5 DEF ReadOK
<1>7. op' = [op EXCEPT ![s] = x]
  BY <1>0, <1>1 DEF Recheck, Goto, OpType
<1> QED BY <1>3, <1>6, <1>7

\* The answer is the truth about the version, unless it is too late.
LEMMA ReadTIDSteps ==
  ASSUME VInv, RowInv, NEW s \in Slots, ReadTID(s)
  PROVE  \E x \in OpType : op' = [op EXCEPT ![s] = x] /\ ReadOK(x)
<1> USE ViewSCNAssumption, RowVisibilityAssumption
<1>0. PICK o : o = op[s]
  OBVIOUS
<1>1. RowTypeOK /\ o \in OpType /\ op \in [Slots -> OpType] /\ ReadOK(o) /\ o.step = "tid"
  BY <1>0 DEF RowInv, ReadInv, ReadTID, Does
<1>2. o.v \in Used /\ o.view <= ViewOf(lst) /\ CreateCopy(o) /\ LimitCopy(o) /\ AskInv(o)
  BY <1>1 DEF ReadOK, Reading
<1>3. PICK f \in {"create", "limit"} : f = Field(o)
  BY DEF Field
<1>4. PICK t : t = o[f].of
  OBVIOUS
<1>5. PICK y : y = (IF mTransID[SlotOf(t)] = t THEN Answer(o) ELSE o[f])
  OBVIOUS
<1>6. PICK late : late = (o.late \/ ~(mTransID[SlotOf(t)] = t) \/ o.status = "END")
  OBVIOUS
<1>7. /\ ~(mTransID[SlotOf(t)] = t /\ o.status = "PRECOMMIT")
      /\ op' = [op EXCEPT ![s] = [o EXCEPT ![f] = y, !.step = "status", !.done = o.done \cup {f}, !.late = late]]
  <2>1. op' = [op EXCEPT ![s] = [o EXCEPT
                  ![f] = IF mTransID[SlotOf(t)] = t THEN Answer(o) ELSE o[f],
                  !.step = "status", !.done = o.done \cup {f},
                  !.late = o.late \/ ~(mTransID[SlotOf(t)] = t) \/ o.status = "END"]]
    <3>1. CASE f = "create"
      BY <3>1, <1>0, <1>1, <1>3, <1>4 DEF ReadTID, OpType
    <3>2. CASE f = "limit"
      BY <3>2, <1>0, <1>1, <1>3, <1>4 DEF ReadTID, OpType
    <3> QED BY <3>1, <3>2
  <2>2. ~(mTransID[SlotOf(t)] = t /\ o.status = "PRECOMMIT")
    BY <1>0, <1>3, <1>4 DEF ReadTID
  <2> QED BY <2>1, <2>2, <1>5, <1>6
<1>8. \A n \in TIDs \cup {NullTID} : commitOf[n] \in Nat
  BY <1>1 DEF RowTypeOK, Infinite
<1>9. o.done \cup {f} \in SUBSET {"create", "limit"}
  BY <1>1 DEF OpType
\* The answer of getTransCommitSCN says whether the writer t committed before the view,
\* unless it comes too late; and it is never a commit SCN that t has not got.
<1>10. ASSUME t \in TIDs
       PROVE  /\ y \in Stamp /\ y.kind \in {"scn", "inf"} /\ late \in BOOLEAN
              /\ y.kind = "scn" => (y.of <= o.view <=> commitOf[t] <= o.view)
              /\ y.kind = "inf" => y.of = t
              /\ y.kind = "inf" /\ ~late => ~(commitOf[t] <= o.view)
  <2>1. o[f] \in Stamp /\ o[f].kind = "inf"
    <3>1. o.create \in Stamp /\ o.limit \in Stamp
      BY <1>1 DEF OpType
    <3>2. o[f] \in Stamp
      BY <3>1
    <3> QED BY <3>2, <1>2, <1>3 DEF AskInv, Asks
  <2>2. late \in BOOLEAN
    BY <1>6
  <2>3. o.scn \in Nat /\ o.view \in Finite
    BY <1>1 DEF OpType, Infinite
  <2>4. mTransID[SlotOf(t)] = t => Asked(o, t)
    BY <1>2, <1>3, <1>4 DEF AskInv, Current
  <2>5. CASE mTransID[SlotOf(t)] = t /\ o.status = "COMMIT" /\ o.scn # Infinite
    <3>1. y = At(o.scn)
      BY <2>5, <1>5 DEF Answer
    <3>2. y \in Stamp /\ y.kind = "scn" /\ y.of = o.scn
      BY <3>1, <2>3 DEF At, Stamp
    <3>3. o.scn = commitOf[t]
      BY <2>4, <2>5, <1>1 DEF Asked
    <3> QED BY <3>2, <3>3, <2>2
  <2>6. CASE ~(mTransID[SlotOf(t)] = t /\ o.status = "COMMIT" /\ o.scn # Infinite)
    <3>1. y = o[f]
      BY <2>6, <1>3, <1>5 DEF Answer
    <3>2. ~late => ~(commitOf[t] <= o.view)
      <4>1. SUFFICES ASSUME ~late PROVE ~(commitOf[t] <= o.view)
        OBVIOUS
      <4>2. mTransID[SlotOf(t)] = t /\ o.status # "END"
        BY <4>1, <1>6
      <4>3. mTransID[SlotOf(t)] = t /\ o.status \in {"BEGIN", "ABORT", "COMMIT"}
        BY <4>2, <1>1, <1>7 DEF OpType
      <4>4. CASE o.status = "COMMIT"
        <5>1. commitOf[t] = Infinite
          BY <4>3, <4>4, <2>4, <2>6, <1>1 DEF Asked
        <5> QED BY <5>1, <2>3 DEF Finite, Infinite
      <4> QED BY <4>3, <4>4, <2>4 DEF Asked
    <3> QED BY <3>1, <3>2, <2>1, <2>2, <1>4
  <2> QED BY <2>5, <2>6
<1>11. CASE f = "create"
  <2>1. f = Field(o) /\ o[f] = o.create /\ t = creator[o.v] /\ o.create.kind = "inf" /\ o.create.of \in Nat
    BY <1>11, <1>1, <1>2, <1>3, <1>4 DEF AskInv, Asks, CreateCopy, OpType, Stamp
  <2>2. t \in TIDs
    <3>1. CreateInv(o.v)
      BY <1>2 DEF RowInv
    <3>2. t \in Nat
      BY <2>1, <1>4
    <3> QED BY <3>1, <3>2, <2>1 DEF CreateInv, Known, NullTID
  <2>3. /\ y \in Stamp /\ y.kind \in {"scn", "inf"} /\ late \in BOOLEAN
        /\ y.kind = "scn" => (y.of <= o.view <=> commitOf[t] <= o.view)
        /\ y.kind = "inf" => y.of = t
        /\ y.kind = "inf" /\ ~late => ~(commitOf[t] <= o.view)
    BY <2>2, <1>10
  <2> DEFINE x == [o EXCEPT !.create = y, !.step = "status", !.done = o.done \cup {"create"}, !.late = late]
  <2>4. x \in OpType
    BY <2>3, <1>1, <1>9, <1>11 DEF OpType, Reading
  <2>5. /\ x.step = "status" /\ x.v = o.v /\ x.view = o.view /\ x.create = y /\ x.limit = o.limit
        /\ x.done = o.done \cup {"create"} /\ x.late = late
    BY <1>1 DEF OpType
  <2>6. op' = [op EXCEPT ![s] = x]
    BY <1>7, <1>11
  <2> HIDE DEF x
  <2>7. CreateCopy(x)
    BY <2>1, <2>3, <2>5 DEF CreateCopy, Began
  <2>8. LimitCopy(x)
    <3>1. "limit" \in x.done => "limit" \in o.done
      BY <2>5
    <3>2. ~late => ~o.late
      BY <1>6
    <3> QED BY <3>1, <3>2, <2>5, <1>2 DEF LimitCopy
  <2>9. ReadOK(x)
    BY <2>5, <2>7, <2>8, <1>2 DEF ReadOK
  <2> QED BY <2>4, <2>6, <2>9
<1>12. CASE f = "limit"
  <2>1. f = Field(o) /\ o[f] = o.limit /\ t = o.limit.of /\ o.limit.kind = "inf"
    BY <1>12, <1>1, <1>2, <1>3, <1>4 DEF AskInv, Asks
  <2>2. t \in TIDs /\ (commitOf[t] <= o.view <=> Over(o.v, o.view))
    BY <2>1, <1>2 DEF LimitCopy, Known
  <2>3. /\ y \in Stamp /\ y.kind \in {"scn", "inf"} /\ late \in BOOLEAN
        /\ y.kind = "scn" => (y.of <= o.view <=> commitOf[t] <= o.view)
        /\ y.kind = "inf" => y.of = t
        /\ y.kind = "inf" /\ ~late => ~(commitOf[t] <= o.view)
    BY <2>2, <1>10
  <2> DEFINE x == [o EXCEPT !.limit = y, !.step = "status", !.done = o.done \cup {"limit"}, !.late = late]
  <2>4. x \in OpType
    BY <2>3, <1>1, <1>9, <1>12 DEF OpType, Reading
  <2>5. /\ x.step = "status" /\ x.v = o.v /\ x.view = o.view /\ x.create = o.create /\ x.limit = y
        /\ x.done = o.done \cup {"limit"} /\ x.late = late
    BY <1>1 DEF OpType
  <2>6. op' = [op EXCEPT ![s] = x]
    BY <1>7, <1>12
  <2> HIDE DEF x
  <2>7. CreateCopy(x)
    <3>1. "create" \in x.done => "create" \in o.done
      BY <2>5
    <3>2. ~late => ~o.late
      BY <1>6
    <3> QED BY <3>1, <3>2, <2>5, <1>2 DEF CreateCopy
  <2>8. LimitCopy(x)
    BY <2>1, <2>2, <2>3, <2>5, <1>2 DEF LimitCopy
  <2>9. ReadOK(x)
    BY <2>5, <2>7, <2>8, <1>2 DEF ReadOK
  <2> QED BY <2>4, <2>6, <2>9
<1> QED BY <1>11, <1>12

\* The verdict is right, unless an answer was too late; what is judged visible began
\* before the view in any case.
LEMMA VerdictSteps ==
  ASSUME VInv, RowInv, NEW s \in Slots, Verdict(s)
  PROVE  \E x \in OpType : op' = [op EXCEPT ![s] = x] /\ ReadOK(x)
<1> USE ViewSCNAssumption, RowVisibilityAssumption
<1>0. PICK o : o = op[s]
  OBVIOUS
<1>1. RowTypeOK /\ o \in OpType /\ op \in [Slots -> OpType] /\ ReadOK(o) /\ o.step = "status" /\ Resolved(o)
  BY <1>0 DEF RowInv, ReadInv, Verdict, Does
<1>2. o.v \in Used /\ o.view <= ViewOf(lst) /\ CreateCopy(o) /\ LimitCopy(o)
  BY <1>1 DEF ReadOK, Reading
<1>3. PICK b \in BOOLEAN : b = Visible(o)
  BY DEF Visible
<1> DEFINE x == [o EXCEPT !.step = "seen", !.seen = b]
<1>4. x \in OpType
  BY <1>1 DEF OpType, Reading
<1>5. x.step = "seen" /\ x.v = o.v /\ x.view = o.view /\ x.seen = b /\ x.late = o.late
  BY <1>1 DEF OpType
<1>6. /\ creator[o.v] \in TIDs \cup {NullTID} /\ limiter[o.v] \in TIDs \cup {NullTID}
      /\ \A n \in TIDs \cup {NullTID} : commitOf[n] \in Nat
      /\ o.view \in Nat /\ o.view < Infinite /\ CreateInv(o.v) /\ o.limit \in Stamp
  BY <1>1, <1>2 DEF RowInv, RowTypeOK, OpType, Finite, Infinite
<1>7. InSnapshot(o.v, o.view) <=> Began(o.v, o.view) /\ ~Over(o.v, o.view)
  <2>1. o.v \in deleted => ~Began(o.v, o.view)
    BY <1>6 DEF CreateInv, Never, Began
  <2> QED BY <2>1, <1>6 DEF InSnapshot, Began, Over
<1>8. Visible(o) => Began(o.v, o.view)
  BY <1>2 DEF Visible, CreateCopy
<1>9. ASSUME ~o.late PROVE Visible(o) <=> Began(o.v, o.view) /\ ~Over(o.v, o.view)
  <2>1. o.create.kind = "scn" /\ o.create.of <= o.view <=> Began(o.v, o.view)
    BY <1>1, <1>2, <1>9 DEF CreateCopy, Resolved
  <2>2. (o.limit.kind = "scn" => o.limit.of > o.view) <=> ~Over(o.v, o.view)
    <3>1. o.limit.kind \in {"scn", "inf", "lock", "free"} /\ o.limit.of \in Nat
      BY <1>6 DEF Stamp
    <3> QED BY <3>1, <1>1, <1>2, <1>6, <1>9 DEF LimitCopy, Resolved
  <2> QED BY <2>1, <2>2 DEF Visible
<1>10. ReadOK(x)
  <2> HIDE DEF x
  <2> QED BY <1>2, <1>3, <1>5, <1>7, <1>8, <1>9 DEF ReadOK
<1>11. op' = [op EXCEPT ![s] = x]
  BY <1>0, <1>1, <1>3 DEF Verdict, OpType
<1> QED BY <1>4, <1>10, <1>11

\* A step of a reader gives it a state in which it knows what it should.
LEMMA ReaderSteps ==
  ASSUME VInv, RowInv, NEW s \in Slots, Read(s)
  PROVE  /\ \E x \in OpType : op' = [op EXCEPT ![s] = x] /\ ReadOK(x)
         /\ UNCHANGED <<viewVars, rowVars, historyVars>>
         /\ op[s].step \in Reading \cup {"none"} /\ op'[s].step \in Reading \cup {"none"} /\ pc[s] = "run"
<1>1. ASSUME NEW k \in Stmts, NEW v \in Versions, ReadCreate(s, k, v)
      PROVE  op[s].step \in Reading \cup {"none"} /\ op'[s].step \in Reading \cup {"none"}
  BY <1>1 DEF ReadCreate, Does, Reading, RowInv, Resting
<1>2. CASE ReadLimit(s)
  BY <1>2, ReadLimitSteps DEF ReadLimit, Does, Reading, RowInv, OpType
<1>3. CASE ReadStatus(s)
  <2>1. op[s].step = "status" /\ op[s] \in OpType /\ op \in [Slots -> OpType]
    BY <1>3 DEF ReadStatus, Does, RowInv
  <2>2. op'[s].step \in {"scn", "status"}
    BY <2>1, <1>3 DEF ReadStatus, OpType
  <2> QED BY <2>1, <2>2, <1>3, ReadStatusSteps DEF ReadStatus, Does, Reading
<1>4. CASE ReadCommitSCN(s)
  BY <1>4, ReadCommitSCNSteps DEF ReadCommitSCN, Does, Reading, RowInv, OpType
<1>5. CASE Recheck(s)
  BY <1>5, RecheckSteps DEF Recheck, Does, Reading, RowInv, OpType, Goto
<1>6. CASE ReadTID(s)
  BY <1>6, ReadTIDSteps DEF ReadTID, Does, Reading, RowInv, OpType
<1>7. CASE Verdict(s)
  BY <1>7, VerdictSteps DEF Verdict, Does, Reading, RowInv, OpType
<1>8. CASE EndCheck(s)
  <2>1. FreeRow \in Stamp /\ 0 \in 0 .. LastSCN \cup {Infinite} /\ 0 \in 0 .. VersionCnt
    BY ViewSCNAssumption, RowVisibilityAssumption DEF FreeRow, Stamp
  <2>2. Resting \in OpType
    BY <2>1, ViewSCNAssumption DEF Resting, OpType, Finite
  <2>3. ReadOK(Resting) /\ Resting.step = "none"
    BY DEF ReadOK, Resting, Reading
  <2>4. op' = [op EXCEPT ![s] = Resting]
    BY <1>8 DEF EndCheck, Rest
  <2> QED BY <2>2, <2>3, <2>4, <1>8 DEF EndCheck, Does, Reading, RowInv
<1>9. ASSUME NEW k \in Stmts, NEW v \in Versions, ReadCreate(s, k, v)
      PROVE  /\ \E x \in OpType : op' = [op EXCEPT ![s] = x] /\ ReadOK(x)
             /\ UNCHANGED <<viewVars, rowVars, historyVars>> /\ pc[s] = "run"
  BY <1>9, ReadCreateSteps DEF ReadCreate, Does
<1> QED BY <1>1, <1>2, <1>3, <1>4, <1>5, <1>6, <1>7, <1>8, <1>9 DEF Read

\* Steps that leave the versions alone: what remains to be shown for the invariant.
LEMMA RestInv ==
  ASSUME VInv, VInv', RowInv, RowsGoOn, NeverGoesOn, RowsRest, HistoryInv',
         commitOf' \in [TIDs \cup {NullTID} -> 0 .. LastSCN \cup {Infinite}],
         op' \in [Slots -> OpType],
         \A r \in Slots : op'[r] = op[r] \/ (op[r].step \notin Changing /\ op'[r].step \notin Changing),
         \A r \in Slots : mTransID'[r] = mTransID[r] \/ (Clean(r) /\ op[r].step = "none"),
         \A r \in Slots : CommitInv(r)' /\ TidInv(r)' /\ ReadInv(r)'
  PROVE  RowInv'
<1>1. /\ create' = create /\ limit' = limit /\ prev' = prev /\ deleted' = deleted
      /\ creator' = creator /\ limiter' = limiter /\ Used' = Used
  BY DEF RowsRest, rowVars, Used
<1>2. /\ \A v \in Used' : CreateInv(v)' /\ LimitInv(v)' /\ ChainInv(v)'
      /\ \A r \in Slots : WriteInv(r)'
  BY RestKept
<1>3. RowTypeOK'
  <2>1. \A r \in Slots : op'[r].v \in 0 .. VersionCnt /\ op'[r].create \in Stamp /\ op'[r].limit \in Stamp
    BY DEF OpType
  <2> QED BY <2>1, <1>1 DEF RowTypeOK, RowInv, VInv
<1>4. (\E n \in 0 .. VersionCnt : Used = 1 .. n)'
  BY <1>1 DEF RowInv
<1> QED BY <1>2, <1>3, <1>4 DEF RowInv

\* Without a commit the SCNs in the history keep their bounds.
LEMMA HistoryKept ==
  ASSUME VInv, RowInv, RowsGoOn, UNCHANGED commitOf
  PROVE  HistoryInv' /\ commitOf' \in [TIDs \cup {NullTID} -> 0 .. LastSCN \cup {Infinite}]
<1>1. TypeOK /\ HistoryInv /\ RowTypeOK
  BY DEF VInv, RowInv
<1>2. ASSUME NEW t \in TIDs, commitOf[t] # Infinite PROVE Known(t)' /\ commitOf[t] <= lst'
  <2>1. Known(t) /\ commitOf[t] <= lst /\ t \in Nat
    BY <1>1, <1>2 DEF HistoryInv, TIDs
  <2>2. commitOf[t] \in Nat /\ lst \in Nat /\ lst' \in Nat /\ lst <= lst'
    BY ViewSCNAssumption, <1>1 DEF RowTypeOK, TypeOK, RowsGoOn, VersionsGoOn, Infinite
  <2> QED BY <2>1, <2>2, <1>1, KnownKept
<1> QED BY <1>1, <1>2 DEF HistoryInv, RowTypeOK

\* A reader changes nothing but what it knows.
LEMMA ReadKept ==
  ASSUME VInv, VInv', RowInv, NEW s \in Slots, Read(s)
  PROVE  RowInv' /\ RowsGoOn
<1>1. PICK x \in OpType : op' = [op EXCEPT ![s] = x] /\ ReadOK(x)
  BY ReaderSteps
<1>2. /\ UNCHANGED <<viewVars, rowVars, historyVars>>
      /\ op[s].step \in Reading \cup {"none"} /\ op'[s].step \in Reading \cup {"none"} /\ pc[s] = "run"
  BY ReaderSteps
<1>3. /\ create' = create /\ limit' = limit /\ prev' = prev /\ deleted' = deleted
      /\ creator' = creator /\ limiter' = limiter /\ commitOf' = commitOf
      /\ lst' = lst /\ mStatus' = mStatus /\ mCommitSCN' = mCommitSCN /\ mTransID' = mTransID
      /\ view' = view /\ legacy' = legacy /\ pc' = pc /\ scn' = scn
  BY <1>2 DEF viewVars, rowVars, historyVars, transVars, stmtVars
<1>4. TypeOK /\ op \in [Slots -> OpType]
  BY DEF VInv, RowInv
<1>5. RowsGoOn
  BY <1>3, <1>4, ViewSCNAssumption DEF RowsGoOn, VersionsGoOn, TypeOK, Used
<1>6. RowsRest
  BY <1>2 DEF RowsRest, historyVars
<1>7. \A r \in Slots : r # s => op'[r] = op[r]
  BY <1>1, <1>4
<1>8. op'[s] = x /\ op' \in [Slots -> OpType]
  BY <1>1, <1>4
<1>9. NeverGoesOn
  <2>1. op[s].step \notin {"undo", "unlimit"}
    BY <1>2 DEF Reading
  <2> QED BY <2>1, <1>2, <1>3, <1>7 DEF NeverGoesOn, Undoing
<1>10. \A r \in Slots : op'[r] = op[r] \/ (op[r].step \notin Changing /\ op'[r].step \notin Changing)
  BY <1>2, <1>7 DEF Changing, Reading
<1>11. ASSUME NEW r \in Slots PROVE CommitInv(r)' /\ TidInv(r)'
  <2>1. CommitInv(r) /\ TidInv(r)
    BY DEF RowInv
  <2>2. op'[r].step # "none" => pc[r] = "run"
    BY <2>1, <1>2, <1>7 DEF CommitInv
  <2>3. Clean(r)' <=> Clean(r)
    BY <1>3 DEF Clean, Made, Limited, Used
  <2> QED BY <2>1, <2>2, <2>3, <1>3, AsideKept
<1>12. ASSUME NEW r \in Slots PROVE ReadInv(r)'
  <2>1. CASE r = s
    <3>1. ReadOK(x)'
      BY <1>1, <1>3 DEF ReadOK, CreateCopy, LimitCopy, AskInv, Asked, Began, Over, InSnapshot, Known, Current, Used
    <3> QED BY <3>1, <2>1, <1>8 DEF ReadInv
  <2>2. CASE r # s
    BY <2>2, <1>5, <1>7, ReaderKept
  <2> QED BY <2>1, <2>2
<1> QED BY <1>3, <1>5, <1>6, <1>8, <1>9, <1>10, <1>11, <1>12, HistoryKept, RestInv

(***************************************************************************)
(* The steps of transactions between two operations on rows.               *)
(***************************************************************************)

\* A transaction does nothing to the slots of others.
LEMMA TransAside ==
  ASSUME TypeOK, NEW s \in Slots, Trans(s), NEW r \in Slots, r # s
  PROVE  /\ pc'[r] = pc[r] /\ scn'[r] = scn[r] /\ view'[r] = view[r] /\ legacy'[r] = legacy[r]
         /\ mStatus'[r] = mStatus[r] /\ mCommitSCN'[r] = mCommitSCN[r] /\ mTransID'[r] = mTransID[r]
BY DEF TypeOK, Trans, OpensView, Committing, Ending, Begin, LockView, GetView, SetView,
   EndStmt, PreCommit, TakeSCN, SetCommitSCN, SetCommitStatus, HoldView, CommitEmpty, Abort, EndStatus,
   NextTID, InitSlot, Goes, stmtVars, transVars, scanVars

\* What remains to be shown of a step of ViewSCN: the slot's own part.
LEMMA TransKept ==
  ASSUME VInv, VInv', RowInv, NEW s \in Slots, Trans(s), RowsGoOn, NeverGoesOn, RowsRest, HistoryInv',
         commitOf' \in [TIDs \cup {NullTID} -> 0 .. LastSCN \cup {Infinite}],
         op' = op \/ (op' = [op EXCEPT ![s] = Resting] /\ op[s].step \in {"none", "undo"}),
         mTransID'[s] = mTransID[s] \/ (Clean(s) /\ op[s].step = "none"),
         \A r \in Slots : r # s => commitOf'[mTransID[r]] = commitOf[mTransID[r]],
         CommitInv(s)', TidInv(s)'
  PROVE  RowInv'
<1>1. TypeOK /\ op \in [Slots -> OpType]
  BY DEF VInv, RowInv
<1>2. Resting \in OpType /\ Resting.step = "none"
  <2>1. FreeRow \in Stamp /\ 0 \in 0 .. LastSCN \cup {Infinite} /\ 0 \in 0 .. VersionCnt
    BY ViewSCNAssumption, RowVisibilityAssumption DEF FreeRow, Stamp
  <2> QED BY <2>1, ViewSCNAssumption DEF Resting, OpType, Finite
<1>3. op' \in [Slots -> OpType] /\ \A r \in Slots : r # s => op'[r] = op[r]
  BY <1>1, <1>2
<1>4. op'[s] = op[s] \/ (op'[s] = Resting /\ op[s].step \in {"none", "undo"})
  BY <1>1
<1>5. \A r \in Slots : op'[r] = op[r] \/ (op[r].step \notin Changing /\ op'[r].step \notin Changing)
  BY <1>2, <1>3, <1>4 DEF Changing
<1>6. \A r \in Slots : mTransID'[r] = mTransID[r] \/ (Clean(r) /\ op[r].step = "none")
  BY <1>1, TransAside
<1>7. ASSUME NEW r \in Slots, r # s PROVE CommitInv(r)' /\ TidInv(r)'
  <2>1. CommitInv(r) /\ TidInv(r)
    BY DEF RowInv
  <2>2. /\ pc'[r] = pc[r] /\ scn'[r] = scn[r] /\ view'[r] = view[r] /\ legacy'[r] = legacy[r]
        /\ mStatus'[r] = mStatus[r] /\ mCommitSCN'[r] = mCommitSCN[r] /\ mTransID'[r] = mTransID[r]
    BY <1>1, <1>7, TransAside
  <2>3. op'[r].step # "none" => pc[r] = "run"
    BY <2>1, <1>3, <1>7 DEF CommitInv
  <2>4. Clean(r)' <=> Clean(r)
    BY <2>2 DEF Clean, Made, Limited, Used, RowsRest, rowVars
  <2> QED BY <2>1, <2>2, <2>3, <2>4, <1>7, AsideKept
<1>8. ASSUME NEW r \in Slots PROVE ReadInv(r)'
  <2>1. CASE op'[r] = op[r]
    BY <2>1, ReaderKept
  <2>2. CASE op'[r] # op[r]
    <3>1. op'[r].step = "none"
      BY <2>2, <1>2, <1>3, <1>4
    <3> QED BY <3>1 DEF ReadInv, ReadOK, Reading
  <2> QED BY <2>1, <2>2
<1>9. \A r \in Slots : CommitInv(r)' /\ TidInv(r)' /\ ReadInv(r)'
  BY <1>7, <1>8
<1> QED BY <1>3, <1>5, <1>6, <1>9, RestInv

\* A step that changes no TID keeps its arithmetic, once the bound of begin is passed.
LEMMA TidKept ==
  ASSUME NEW s \in Slots, TidInv(s), mTransID'[s] = mTransID[s],
         \/ pc'[s] \in {"end", "init"}
         \/ pc[s] \notin {"end", "init"}
         \/ mTransID[s] < LastTrans * mTransCnt
  PROVE  TidInv(s)'
<1>1. PICK q \in 0 .. LastTrans : /\ mTransID[s] = q * mTransCnt + s
                                  /\ pc[s] \notin {"end", "init"} => q < LastTrans
  BY DEF TidInv
<1>2. mTransCnt \in Nat /\ s \in Nat /\ LastTrans \in Nat /\ q \in Nat /\ q <= LastTrans
  BY ViewSCNAssumption DEF Slots
<1>3. mTransID[s] < LastTrans * mTransCnt => q < LastTrans
  <2>1. SUFFICES ASSUME q = LastTrans PROVE ~(mTransID[s] < LastTrans * mTransCnt)
    BY <1>2
  <2>2. PICK p : p = LastTrans * mTransCnt
    OBVIOUS
  <2>3. p \in Nat /\ mTransID[s] = p + s
    BY <2>1, <2>2, <1>1, <1>2
  <2> QED BY <2>2, <2>3, <1>2
<1> QED BY <1>1, <1>3 DEF TidInv

\* The next TID of a slot is a new one (smxTrans::end).
LEMMA NextIsNew ==
  ASSUME VInv, RowInv, NEW s \in Slots, NextTID(s)
  PROVE  /\ mTransID'[s] \in TIDs /\ SlotOf(mTransID'[s]) = s /\ TidInv(s)'
         /\ mTransID[s] < mTransID'[s]
<1>1. TypeOK /\ TidInv(s) /\ pc[s] = "ended" /\ pc'[s] = "init"
  BY DEF VInv, RowInv, NextTID, Goes, TypeOK
<1>2. mTransID'[s] = mTransID[s] + mTransCnt
  BY <1>1 DEF NextTID, TypeOK
<1>3. PICK q \in 0 .. LastTrans : mTransID[s] = q * mTransCnt + s /\ q < LastTrans
  BY <1>1 DEF TidInv
<1>4. mTransCnt \in Nat /\ s \in Nat /\ LastTrans \in Nat /\ q + 1 \in 0 .. LastTrans /\ q + 1 \in Nat
      /\ mTransCnt > 0
  BY <1>3, ViewSCNAssumption DEF Slots
<1>5. ASSUME NEW i \in Nat, NEW n \in Nat, NEW j \in Nat PROVE (i + 1) * n + j = i * n + j + n
  OBVIOUS
<1>6. mTransID'[s] = (q + 1) * mTransCnt + s
  BY <1>2, <1>3, <1>4, <1>5
<1>7. SlotOf(mTransID'[s]) = s
  <2>1. PICK p \in Nat : p = q + 1
    BY <1>4
  <2>2. SlotOf(p * mTransCnt + s) = s
    BY SlotOfTID
  <2> QED BY <2>1, <2>2, <1>6
<1>8. TidInv(s)'
  BY <1>1, <1>4, <1>6 DEF TidInv
<1>9. mTransID'[s] \in TIDs
  BY <1>1, <1>2, SlotTID
<1>10. mTransID[s] < mTransID'[s]
  BY <1>1, <1>2, <1>4 DEF TypeOK
<1> QED BY <1>7, <1>8, <1>9, <1>10

\* Statements, the rest of a commit once the SCN is taken, and the change of the TID,
\* each by a transaction that is not in the middle of something with a row.
LEMMA BetweenKept ==
  ASSUME VInv, VInv', RowInv, NEW s \in Slots, Between(s)
  PROVE  RowInv' /\ RowsGoOn
<1> USE ViewSCNAssumption, RowVisibilityAssumption
<1>1. TypeOK /\ CommitInv(s) /\ TidInv(s) /\ RowTypeOK /\ HistoryInv /\ legacy[s] = {}
  BY DEF VInv, RowInv, CommitInv
<1>2. op' = op /\ op[s].step = "none" /\ commitOf' = commitOf /\ RowsRest /\ rowVars' = rowVars
  BY DEF Between, RowsRest, rowVars, historyVars
<1>3. Trans(s) /\ ~TakeSCN(s)
  <2>1. Trans(s)
    BY DEF Between, Trans, Committing, Ending
  <2>2. pc[s] # "precommit"
    BY DEF Between, OpensView, Begin, LockView, GetView, SetView, EndStmt, SetCommitSCN, SetCommitStatus,
       HoldView, NextTID, InitSlot, Goes
  <2> QED BY <2>1, <2>2 DEF TakeSCN, Goes
<1>4. RowsGoOn
  BY <1>1, <1>2, <1>3, TransGoesOn
<1>5. HistoryInv' /\ commitOf' \in [TIDs \cup {NullTID} -> 0 .. LastSCN \cup {Infinite}]
  BY <1>2, <1>4, HistoryKept
<1>6. mTransID'[s] = mTransID[s] => (Clean(s)' <=> Clean(s))
  BY <1>2 DEF Clean, Made, Limited, Used, rowVars
<1>7. ASSUME pc[s] \notin {"finish", "ended"} \/ mTransID'[s] # mTransID[s]
      PROVE  NeverGoesOn
  <2>1. ASSUME NEW r \in Slots, mTransID'[r] = mTransID[r], Undoing(r) PROVE Undoing(r)'
    <3>1. r # s
      BY <2>1, <1>2, <1>7 DEF Undoing
    <3>2. pc'[r] = pc[r]
      BY <3>1, <1>1, <1>3, TransAside
    <3> QED BY <3>2, <2>1, <1>2 DEF Undoing
  <2> QED BY <2>1, <1>2 DEF NeverGoesOn
<1>8. scn[s] \in Finite /\ Infinite \notin Finite
  BY <1>1 DEF TypeOK, Finite, Infinite
<1> DEFINE Own == CommitInv(s)' /\ TidInv(s)' /\ NeverGoesOn
                  /\ (mTransID'[s] = mTransID[s] \/ Clean(s))
<1>9. ASSUME Begin(s) PROVE Own
  <2>1. mTransID'[s] = mTransID[s] /\ pc[s] = "end"
    BY <1>9 DEF Begin, Goes
  <2>2. TidInv(s)'
    BY <2>1, <1>1, <1>9, TidKept DEF Begin
  <2>3. CommitInv(s)'
    BY <2>1, <1>1, <1>2, <1>6, <1>9 DEF Begin, Goes, TypeOK, CommitInv, Uncommitted, Open, stmtVars
  <2> QED BY <2>1, <2>2, <2>3, <1>7
<1>10. ASSUME OpensView(s) PROVE Own
  <2>1. /\ mTransID' = mTransID /\ pc[s] \in {"run", "view", "set"} /\ pc'[s] \in {"run", "view", "set"}
        /\ mStatus' = mStatus /\ mCommitSCN' = mCommitSCN /\ legacy' = legacy
        /\ op[s].step # "none" => pc'[s] = "run"
    BY <1>1, <1>2, <1>10 DEF OpensView, LockView, GetView, SetView, Goes, TypeOK, transVars, stmtVars
  <2>2. TidInv(s)'
    BY <2>1, <1>1, TidKept
  <2>3. CommitInv(s)'
    BY <2>1, <1>1, <1>2, <1>6 DEF CommitInv, Uncommitted
  <2> QED BY <2>1, <2>2, <2>3, <1>7
<1>11. ASSUME NEW k \in Stmts, EndStmt(s, k) PROVE Own
  <2>1. /\ mTransID' = mTransID /\ pc[s] = "run" /\ pc' = pc /\ legacy'[s] = {}
        /\ mStatus' = mStatus /\ mCommitSCN' = mCommitSCN
    BY <1>1, <1>11 DEF EndStmt, TypeOK
  <2>2. TidInv(s)'
    BY <2>1, <1>1, TidKept
  <2>3. CommitInv(s)'
    BY <2>1, <1>1, <1>2, <1>6 DEF CommitInv, Uncommitted
  <2> QED BY <2>1, <2>2, <2>3, <1>7
<1>12. ASSUME SetCommitSCN(s) PROVE Own
  <2>1. mTransID' = mTransID /\ pc[s] = "taken"
    BY <1>12 DEF SetCommitSCN, Goes
  <2>2. TidInv(s)'
    BY <2>1, <1>1, TidKept
  <2>3. CommitInv(s)'
    BY <2>1, <1>1, <1>2, <1>6, <1>12 DEF SetCommitSCN, Goes, TypeOK, CommitInv, Uncommitted, Open, stmtVars
  <2> QED BY <2>1, <2>2, <2>3, <1>7
<1>13. ASSUME SetCommitStatus(s) PROVE Own
  <2>1. mTransID' = mTransID /\ pc[s] = "scnset"
    BY <1>13 DEF SetCommitStatus, Goes
  <2>2. TidInv(s)'
    BY <2>1, <1>1, TidKept
  <2>3. CommitInv(s)'
    BY <2>1, <1>1, <1>2, <1>6, <1>13 DEF SetCommitStatus, Goes, TypeOK, CommitInv, Uncommitted, Open, stmtVars
  <2> QED BY <2>1, <2>2, <2>3, <1>7
<1>14. ASSUME HoldView(s) PROVE Own
  <2>1. mTransID' = mTransID /\ pc[s] = "committed"
    BY <1>14 DEF HoldView, Goes
  <2>2. TidInv(s)'
    BY <2>1, <1>1, TidKept
  <2>3. commitOf[mTransID[s]] # Infinite
    BY <2>1, <1>1, <1>8 DEF CommitInv
  <2>4. CommitInv(s)'
    BY <2>1, <2>3, <1>1, <1>2, <1>6, <1>14 DEF HoldView, Goes, TypeOK, CommitInv, Uncommitted, Open, stmtVars
  <2> QED BY <2>1, <2>2, <2>4, <1>7
<1>15. ASSUME NextTID(s) PROVE Own
  <2>1. pc[s] = "ended" /\ pc'[s] = "init" /\ mStatus' = mStatus /\ stmtVars' = stmtVars
    BY <1>1, <1>15 DEF NextTID, Goes, TypeOK
  <2>2. PICK n : n = mTransID'[s]
    OBVIOUS
  <2>3. n \in TIDs /\ SlotOf(n) = s /\ TidInv(s)' /\ mTransID[s] < n
    BY <2>2, <1>15, NextIsNew
  <2>4. ~Known(n)
    <3>1. n \in Nat /\ mTransID[s] \in Nat
      BY <2>3, <1>1 DEF TIDs, TypeOK
    <3> QED BY <2>3, <3>1 DEF Known
  <2>5. commitOf[n] = Infinite
    BY <2>3, <2>4, <1>1 DEF HistoryInv
  <2>6. Clean(s) /\ mStatus[s] = "END" /\ Open(s) = {}
    BY <2>1, <1>1 DEF CommitInv
  <2>7. \A v \in Used : create[v] # Inf(n) /\ limit[v] # Inf(n)
    <3> TAKE v \in Used
    <3>1. CreateInv(v) /\ LimitInv(v)
      BY DEF RowInv
    <3>2. n \in Nat
      BY <2>3 DEF TIDs
    <3>3. create[v] # Inf(n)
      BY <3>1, <3>2, <2>4 DEF CreateInv, Inf, NullTID
    <3>4. limit[v] # Inf(n)
      BY <3>1, <2>4 DEF LimitInv, Inf
    <3> QED BY <3>3, <3>4
  <2>8. Clean(s)'
    BY <2>2, <2>7, <1>2 DEF Clean, Made, Limited, Used, rowVars
  <2>9. CommitInv(s)'
    BY <2>1, <2>2, <2>5, <2>6, <2>8, <1>1, <1>2 DEF CommitInv, Uncommitted, Open, stmtVars
  <2>10. mTransID'[s] # mTransID[s]
    BY <2>2, <2>4, <2>3, <1>1 DEF TypeOK, TIDs
  <2> QED BY <2>3, <2>6, <2>9, <2>10, <1>7
<1>16. ASSUME InitSlot(s) PROVE Own
  <2>1. mTransID' = mTransID /\ pc[s] = "init" /\ pc'[s] = "end"
    BY <1>1, <1>16 DEF InitSlot, Goes, TypeOK
  <2>2. TidInv(s)'
    BY <2>1, <1>1, TidKept
  <2>3. CommitInv(s)'
    BY <2>1, <1>1, <1>2, <1>6, <1>16 DEF InitSlot, Goes, TypeOK, CommitInv, Uncommitted, Open, stmtVars
  <2> QED BY <2>1, <2>2, <2>3, <1>7
<1>17. Own
  BY <1>9, <1>10, <1>11, <1>12, <1>13, <1>14, <1>15, <1>16 DEF Between
<1> QED BY <1>2, <1>3, <1>4, <1>5, <1>17, TransKept

\* The commit SCN (smmDatabase::getCommitSCN): the transaction becomes part of the history.
LEMMA TakeKept ==
  ASSUME VInv, VInv', RowInv, NEW s \in Slots, TakeCommitSCN(s)
  PROVE  RowInv' /\ RowsGoOn
<1> USE ViewSCNAssumption, RowVisibilityAssumption
<1>1. TypeOK /\ CommitInv(s) /\ TidInv(s) /\ RowTypeOK /\ HistoryInv
  BY DEF VInv, RowInv
<1>2. /\ pc[s] = "precommit" /\ pc'[s] = "taken" /\ lst' = lst + 2 /\ lst + 2 <= LastSCN /\ scn'[s] = lst + 2
      /\ mTransID' = mTransID /\ mStatus' = mStatus /\ mCommitSCN' = mCommitSCN /\ stmtVars' = stmtVars
      /\ commitOf' = [commitOf EXCEPT ![mTransID[s]] = lst + 2] /\ op' = op
      /\ RowsRest /\ rowVars' = rowVars /\ Trans(s)
  BY <1>1 DEF TakeCommitSCN, TakeSCN, Goes, TypeOK, transVars, RowsRest, rowVars, Trans, Committing
<1>3. PICK n : n = mTransID[s]
  OBVIOUS
<1>4. n \in TIDs /\ SlotOf(n) = s /\ Current(n) /\ n \in Nat /\ lst \in Nat /\ NullTID \notin TIDs
  BY <1>1, <1>3, SlotTID DEF Current, TIDs, TypeOK, NullTID
<1>5. commitOf \in [TIDs \cup {NullTID} -> 0 .. LastSCN \cup {Infinite}]
  BY <1>1 DEF RowTypeOK
<1>6. /\ commitOf'[n] = lst + 2
      /\ \A t \in TIDs \cup {NullTID} : t # n => commitOf'[t] = commitOf[t]
  BY <1>2, <1>3, <1>4, <1>5
<1>7. commitOf' \in [TIDs \cup {NullTID} -> 0 .. LastSCN \cup {Infinite}]
  <2>1. lst + 2 \in 0 .. LastSCN
    BY <1>2, <1>4
  <2> QED BY <2>1, <1>2, <1>5
<1>8. RowsGoOn
  BY TakeGoesOn
<1>9. HistoryInv'
  <2>1. ASSUME NEW t \in TIDs, commitOf'[t] # Infinite PROVE Known(t)' /\ commitOf'[t] <= lst'
    <3>1. CASE t = n
      BY <3>1, <1>2, <1>3, <1>4, <1>6 DEF Known
    <3>2. CASE t # n
      <4>1. Known(t) /\ commitOf[t] <= lst /\ commitOf'[t] = commitOf[t]
        BY <3>2, <2>1, <1>1, <1>6 DEF HistoryInv
      <4>2. commitOf[t] \in Nat
        BY <1>5 DEF Infinite
      <4> QED BY <4>1, <4>2, <1>2, <1>4 DEF Known
    <3> QED BY <3>1, <3>2
  <2>2. commitOf'[NullTID] = 0
    BY <1>1, <1>4, <1>6 DEF HistoryInv
  <2> QED BY <2>1, <2>2 DEF HistoryInv
<1>10. NeverGoesOn
  <2>1. \A t \in TIDs : commitOf'[t] # commitOf[t] => Current(t) /\ pc[SlotOf(t)] = "precommit"
    BY <1>2, <1>4, <1>6
  <2>2. ASSUME NEW r \in Slots, Undoing(r) PROVE Undoing(r)'
    <3>1. r # s
      BY <2>2, <1>2 DEF Undoing
    <3>2. pc'[r] = pc[r]
      BY <3>1, <1>1, <1>2, TransAside
    <3> QED BY <3>2, <2>2, <1>2 DEF Undoing
  <2> QED BY <2>1, <2>2 DEF NeverGoesOn
<1>11. \A r \in Slots : r # s => commitOf'[mTransID[r]] = commitOf[mTransID[r]]
  <2> TAKE r \in Slots
  <2>1. r # s => mTransID[r] \in TIDs /\ mTransID[r] # n
    BY <1>3, TIDsDiffer, SlotTID DEF RowInv
  <2> QED BY <2>1, <1>6
<1>12. TidInv(s)'
  BY <1>1, <1>2, TidKept
<1>13. CommitInv(s)'
  BY <1>1, <1>2, <1>3, <1>6 DEF CommitInv, Uncommitted, Open, stmtVars
<1> QED BY <1>2, <1>7, <1>8, <1>9, <1>10, <1>11, <1>12, <1>13, TransKept

\* The end of a transaction whose rows are stamped or undone (smxTrans::end).
LEMMA EndKept ==
  ASSUME VInv, VInv', RowInv, NEW s \in Slots, EndStamped(s)
  PROVE  RowInv' /\ RowsGoOn
<1> USE ViewSCNAssumption, RowVisibilityAssumption
<1>1. TypeOK /\ CommitInv(s) /\ TidInv(s) /\ RowTypeOK
  BY DEF VInv, RowInv
<1>2. /\ pc[s] = "finish" /\ pc'[s] = "ended" /\ Open(s) = {} /\ Clean(s)
      /\ legacy'[s] = {} /\ mStatus'[s] = "END"
      /\ mTransID' = mTransID /\ mCommitSCN' = mCommitSCN /\ view' = view
      /\ commitOf' = commitOf /\ op' = op /\ RowsRest /\ rowVars' = rowVars /\ Trans(s) /\ ~TakeSCN(s)
  BY <1>1 DEF EndStamped, EndStatus, TakeSCN, Goes, TypeOK, CommitInv, RowsRest, rowVars, historyVars, Trans, Ending
<1>3. RowsGoOn
  BY <1>1, <1>2, TransGoesOn
<1>4. NeverGoesOn
  <2>1. ASSUME NEW r \in Slots, Undoing(r) PROVE Undoing(r)'
    <3>1. r # s => pc'[r] = pc[r]
      BY <1>1, <1>2, TransAside
    <3> QED BY <3>1, <2>1, <1>2 DEF Undoing
  <2> QED BY <2>1, <1>2 DEF NeverGoesOn
<1>5. TidInv(s)'
  BY <1>1, <1>2, TidKept
<1>6. Clean(s)'
  BY <1>2 DEF Clean, Made, Limited, Used, rowVars
<1>7. CommitInv(s)'
  BY <1>1, <1>2, <1>6 DEF CommitInv, Uncommitted, Open
<1>8. HistoryInv' /\ commitOf' \in [TIDs \cup {NullTID} -> 0 .. LastSCN \cup {Infinite}]
  BY <1>2, <1>3, HistoryKept
<1> QED BY <1>2, <1>3, <1>4, <1>5, <1>7, <1>8, TransKept

\* The decision: a transaction that has something to stamp will take an SCN, one without
\* and one that has undone everything go to their end without.
LEMMA DecideKept ==
  ASSUME VInv, VInv', RowInv, NEW s \in Slots, Decide(s), UNCHANGED <<rowVars, historyVars>>
  PROVE  RowInv' /\ RowsGoOn
<1> USE ViewSCNAssumption, RowVisibilityAssumption
<1>1. TypeOK /\ CommitInv(s) /\ TidInv(s) /\ RowTypeOK /\ op \in [Slots -> OpType]
  BY DEF VInv, RowInv
<1>2. /\ pc[s] = "run" /\ mTransID' = mTransID /\ stmtVars' = stmtVars
      /\ commitOf' = commitOf /\ RowsRest /\ rowVars' = rowVars /\ Trans(s) /\ ~TakeSCN(s)
      /\ MayCommit(s)
  BY <1>1 DEF Decide, PreCommit, CommitEmpty, Abort, TakeSCN, Goes, TypeOK, RowsRest, rowVars, historyVars,
     Trans, Committing
<1>3. RowsGoOn
  BY <1>1, <1>2, TransGoesOn
<1>4. Open(s)' = {} /\ legacy'[s] = {}
  BY <1>1, <1>2 DEF CommitInv, MayCommit, Open, stmtVars
<1>5. Clean(s)' <=> Clean(s)
  BY <1>2 DEF Clean, Made, Limited, Used, rowVars
<1>6. commitOf[mTransID[s]] = Infinite /\ mCommitSCN[s] = Infinite
  BY <1>1, <1>2 DEF CommitInv, Uncommitted
<1>7. /\ op' = op \/ (op' = [op EXCEPT ![s] = Resting] /\ op[s].step \in {"none", "undo"})
      /\ op'[s].step = "none"
      /\ op[s].step = "undo" => pc'[s] = "finish"
  BY <1>1 DEF Decide, Rest, Resting, Abort, Goes, TypeOK
<1>8. NeverGoesOn
  <2>1. ASSUME NEW r \in Slots, Undoing(r) PROVE Undoing(r)'
    <3>1. r # s => pc'[r] = pc[r] /\ op'[r] = op[r]
      BY <1>1, <1>2, <1>7, TransAside
    <3>2. r = s => pc'[s] = "finish"
      <4>1. r = s => op[s].step \in {"undo", "unlimit"}
        BY <2>1, <1>2 DEF Undoing
      <4>2. op[s].step \in {"none", "undo"}
        BY DEF Decide
      <4> QED BY <4>1, <4>2, <1>7
    <3> QED BY <3>1, <3>2, <2>1 DEF Undoing
  <2> QED BY <2>1, <1>2 DEF NeverGoesOn
<1>9. TidInv(s)'
  BY <1>1, <1>2, TidKept
<1>10. CommitInv(s)'
  <2>1. CASE PreCommit(s) /\ ~Clean(s)
    <3>1. pc'[s] = "precommit" /\ mStatus'[s] = "PRECOMMIT" /\ mCommitSCN' = mCommitSCN
      BY <2>1, <1>1 DEF PreCommit, Goes, TypeOK
    <3> QED BY <3>1, <1>2, <1>4, <1>6, <1>7 DEF CommitInv, Uncommitted
  <2>2. CASE CommitEmpty(s) /\ Clean(s)
    <3>1. pc'[s] = "finish" /\ mStatus'[s] = "COMMIT" /\ mCommitSCN' = mCommitSCN
      BY <2>2, <1>1 DEF CommitEmpty, Goes, TypeOK
    <3> QED BY <3>1, <2>2, <1>2, <1>4, <1>5, <1>6, <1>7 DEF CommitInv, Uncommitted
  <2>3. CASE Abort(s) /\ Clean(s)
    <3>1. pc'[s] = "finish" /\ mStatus'[s] = "ABORT"
      BY <2>3, <1>1 DEF Abort, Goes, TypeOK
    <3> QED BY <3>1, <2>3, <1>2, <1>4, <1>5, <1>6, <1>7 DEF CommitInv, Uncommitted
  <2> QED BY <2>1, <2>2, <2>3 DEF Decide
<1>11. HistoryInv' /\ commitOf' \in [TIDs \cup {NullTID} -> 0 .. LastSCN \cup {Infinite}]
  BY <1>2, <1>3, HistoryKept
<1> QED BY <1>2, <1>3, <1>7, <1>8, <1>9, <1>10, <1>11, TransKept

(***************************************************************************)
(* The steps of writers.  The transactions, their SCNs and the operations  *)
(* of other slots stand still; what is not touched keeps its invariant.    *)
(***************************************************************************)

WriteFrame(s) ==
  /\ UNCHANGED <<viewVars, commitOf>>
  /\ op' \in [Slots -> OpType] /\ \A r \in Slots : r # s => op'[r] = op[r]
  /\ Undoing(s) => Undoing(s)'
  /\ op'[s] = op[s] \/ op'[s].step \notin Reading
  /\ op'[s].step # "none" => pc[s] = "run"

\* The variables of ViewSCN, one by one.
LEMMA FrameViews ==
  ASSUME NEW s \in Slots, WriteFrame(s)
  PROVE  /\ lst' = lst /\ mStatus' = mStatus /\ mCommitSCN' = mCommitSCN /\ mTransID' = mTransID
         /\ view' = view /\ legacy' = legacy /\ pc' = pc /\ scn' = scn /\ commitOf' = commitOf
BY DEF WriteFrame, viewVars, transVars, stmtVars

\* TIDs and commits stand still.
LEMMA FrameTIDs ==
  ASSUME NEW s \in Slots, WriteFrame(s), NEW t \in Nat
  PROVE  (Known(t)' <=> Known(t)) /\ (Current(t)' <=> Current(t)) /\ (Never(t) => Never(t)')
<1>1. commitOf' = commitOf /\ mTransID' = mTransID /\ pc' = pc
  BY FrameViews
<1>2. \A r \in Slots : Undoing(r) => Undoing(r)'
  BY <1>1 DEF WriteFrame, Undoing
<1>3. SlotOf(t) \in Slots
  BY SlotOfIsSlot
<1> QED BY <1>1, <1>2, <1>3 DEF Known, Current, Never

\* A version whose creation is not touched.
LEMMA CreateSame ==
  ASSUME RowInv, NEW s \in Slots, WriteFrame(s), NEW v \in Used,
         create'[v] = create[v], creator'[v] = creator[v], v \in deleted' <=> v \in deleted
  PROVE  CreateInv(v)'
<1>1. CreateInv(v) /\ create[v] \in Stamp /\ creator[v] \in TIDs \cup {NullTID} /\ \A t \in TIDs : t \in Nat
  BY DEF RowInv, RowTypeOK, TIDs
<1>2. PICK c : c = creator[v]
  OBVIOUS
<1>3. c # NullTID => c \in Nat
  BY <1>1, <1>2
<1>4. c # NullTID => (Known(c)' <=> Known(c)) /\ (Current(c)' <=> Current(c)) /\ (Never(c) => Never(c)')
  BY <1>3, FrameTIDs
<1>5. create[v].kind = "inf" => c # NullTID
  BY <1>1, <1>2 DEF CreateInv, Stamp, NullTID
<1>6. commitOf' = commitOf
  BY FrameViews
<1>7. v \in deleted => c # NullTID
  BY <1>1, <1>5 DEF CreateInv
<1> QED BY <1>1, <1>2, <1>4, <1>5, <1>6, <1>7 DEF CreateInv

\* A version whose end is not touched, nor the operation that has it locked.
LEMMA LimitSame ==
  ASSUME RowInv, NEW s \in Slots, WriteFrame(s), NEW v \in Used,
         limit'[v] = limit[v], limiter'[v] = limiter[v],
         op'[s] = op[s] \/ ~(op[s].step = "locked" /\ op[s].v = v)
  PROVE  LimitInv(v)'
<1>1. LimitInv(v) /\ limit[v] \in Stamp /\ limiter[v] \in TIDs \cup {NullTID}
  BY DEF RowInv, RowTypeOK
<1>2. PICK c : c = limiter[v]
  OBVIOUS
<1>3. limit[v].kind = "inf" => c \in Nat
  BY <1>1, <1>2 DEF LimitInv, Stamp
<1>4. limit[v].kind = "inf" => (Known(c)' <=> Known(c)) /\ (Current(c)' <=> Current(c))
  BY <1>3, FrameTIDs
<1>5. commitOf' = commitOf /\ mTransID' = mTransID
  BY FrameViews
<1>6. limit[v].kind = "lock" =>
        \E r \in Slots : limit[v].of = mTransID'[r] /\ op'[r].step = "locked" /\ op'[r].v = v
  <2>1. SUFFICES ASSUME limit[v].kind = "lock"
                 PROVE  \E r \in Slots : limit[v].of = mTransID'[r] /\ op'[r].step = "locked" /\ op'[r].v = v
    OBVIOUS
  <2>2. PICK r \in Slots : limit[v].of = mTransID[r] /\ op[r].step = "locked" /\ op[r].v = v
    BY <2>1, <1>1 DEF LimitInv
  <2>3. op'[r] = op[r]
    BY <2>2 DEF WriteFrame
  <2> QED BY <2>2, <2>3, <1>5
<1> QED BY <1>1, <1>2, <1>4, <1>5, <1>6 DEF LimitInv

\* A change of who limited a version does not disturb the chain if nothing is made from it.
LEMMA ChainSame ==
  ASSUME RowInv, prev' = prev, creator' = creator, Used' = Used, deleted \subseteq deleted',
         \A u \in Used : limiter'[u] = limiter[u] \/ \A w \in Used \ deleted : prev[w] # u
  PROVE  \A v \in Used : ChainInv(v)'
<1>1. ASSUME NEW v \in Used, v \notin deleted', prev[v] # 0
      PROVE  /\ prev[v] \in Used /\ creator[v] # NullTID /\ limiter'[prev[v]] = creator[v]
             /\ \A w \in Used \ deleted' : prev[w] = prev[v] => w = v
  <2>1. ChainInv(v) /\ v \in Used \ deleted
    BY <1>1 DEF RowInv
  <2> QED BY <2>1, <1>1 DEF ChainInv
<1> QED BY <1>1 DEF ChainInv

\* The writer r knows what it did, as long as its version is not touched and nobody
\* makes another one from it.
LEMMA WriteSame ==
  ASSUME RowInv, NEW r \in Slots, op'[r] = op[r], mTransID' = mTransID, Used \subseteq Used',
         op[r].step \in Changing => limit'[op[r].v] = limit[op[r].v],
         \A w \in Used' \ deleted' :
           (w \in Used \ deleted /\ prev'[w] = prev[w]) \/ (op[r].step \in Changing => prev'[w] # op[r].v)
  PROVE  WriteInv(r)'
<1>1. WriteInv(r)
  BY DEF RowInv
<1>2. CASE op[r].step = "locked"
  BY <1>1, <1>2 DEF WriteInv, Changing
<1>3. CASE op[r].step \in {"limited", "unlimit"}
  <2>1. \A w \in Used' \ deleted' : prev'[w] # op[r].v
    BY <1>1, <1>3 DEF WriteInv, Changing
  <2> QED BY <2>1, <1>1, <1>3 DEF WriteInv, Changing
<1>4. CASE op[r].step \notin Changing
  BY <1>4 DEF WriteInv, Changing
<1> QED BY <1>2, <1>3, <1>4 DEF Changing

\* What is free, or locked or limited by s, is not what another writer is changing.
LEMMA NotAnothers ==
  ASSUME RowInv, NEW s \in Slots, NEW r \in Slots, r # s, op[r].step \in Changing, NEW x \in Used,
         limit[x] \in {FreeRow, Lock(mTransID[s]), Inf(mTransID[s])}
  PROVE  op[r].v # x
<1>1. mTransID[r] # mTransID[s]
  BY TIDsDiffer DEF RowInv
<1>2. limit[op[r].v] \in {Lock(mTransID[r]), Inf(mTransID[r])}
  BY DEF RowInv, WriteInv, Changing
<1>3. FreeRow.kind = "free" /\ \A t : Lock(t).kind = "lock" /\ Inf(t).kind = "inf" /\ Lock(t).of = t /\ Inf(t).of = t
  BY DEF FreeRow, Lock, Inf
<1> QED BY <1>1, <1>2, <1>3

\* What remains to be shown of a step of a writer: its versions and what it knows.
LEMMA WriterInv ==
  ASSUME VInv, VInv', RowInv, NEW s \in Slots, WriteFrame(s), VersionsGoOn,
         \E n \in 0 .. VersionCnt : Used' = 1 .. n,
         create' \in [Used' -> Stamp], limit' \in [Used' -> Stamp], prev' \in [Used' -> 0 .. VersionCnt],
         deleted' \subseteq Used', creator' \in [Used' -> TIDs \cup {NullTID}],
         limiter' \in [Used' -> TIDs \cup {NullTID}],
         \A r \in Slots : pc[r] # "run" /\ Clean(r) => Clean(r)',
         \A v \in Used' : CreateInv(v)' /\ LimitInv(v)' /\ ChainInv(v)',
         \A r \in Slots : WriteInv(r)'
  PROVE  RowInv' /\ RowsGoOn
<1>1. TypeOK /\ RowTypeOK
  BY DEF VInv, RowInv
<1>2. /\ lst' = lst /\ mStatus' = mStatus /\ mCommitSCN' = mCommitSCN /\ mTransID' = mTransID
      /\ view' = view /\ legacy' = legacy /\ pc' = pc /\ scn' = scn /\ commitOf' = commitOf
  BY FrameViews
<1>3. RowsGoOn
  <2>1. lst \in Nat /\ \A r \in Slots : mTransID[r] \in Nat
    BY <1>1, ViewSCNAssumption DEF TypeOK
  <2> QED BY <2>1, <1>2 DEF RowsGoOn
<1>4. HistoryInv' /\ commitOf' \in [TIDs \cup {NullTID} -> 0 .. LastSCN \cup {Infinite}]
  BY <1>2, <1>3, HistoryKept
<1>5. ASSUME NEW r \in Slots PROVE CommitInv(r)' /\ TidInv(r)'
  <2>1. CommitInv(r) /\ TidInv(r)
    BY DEF RowInv
  <2>2. op'[r].step # "none" => pc[r] = "run"
    BY <2>1 DEF CommitInv, WriteFrame
  <2> QED BY <2>1, <2>2, <1>2, AsideKept
<1>6. ASSUME NEW r \in Slots PROVE ReadInv(r)'
  <2>1. CASE op'[r] = op[r]
    BY <2>1, <1>3, ReaderKept
  <2>2. CASE op'[r].step \notin Reading
    BY <2>2 DEF ReadInv, ReadOK
  <2> QED BY <2>1, <2>2 DEF WriteFrame
<1>7. op' \in [Slots -> OpType]
  BY DEF WriteFrame
<1>8. RowTypeOK'
  <2>1. \A r \in Slots : op'[r].v \in 0 .. VersionCnt /\ op'[r].create \in Stamp /\ op'[r].limit \in Stamp
    BY <1>7 DEF OpType
  <2>2. Used' \subseteq Versions
    BY RowVisibilityAssumption DEF Versions
  <2> QED BY <2>1, <2>2, <1>4 DEF RowTypeOK, VInv
<1>9. (\E n \in 0 .. VersionCnt : Used = 1 .. n)'
  OBVIOUS
<1> QED BY <1>3, <1>4, <1>5, <1>6, <1>7, <1>8, <1>9 DEF RowInv

\* A transaction that runs has no commit SCN, and its TID stands in its slot.
LEMMA Runner ==
  ASSUME VInv, RowInv, NEW s \in Slots, pc[s] = "run"
  PROVE  /\ mTransID[s] \in TIDs /\ mTransID[s] \in Nat /\ mTransID[s] # NullTID
         /\ SlotOf(mTransID[s]) = s /\ Known(mTransID[s]) /\ Current(mTransID[s])
         /\ commitOf[mTransID[s]] = Infinite
<1>1. mTransID[s] \in TIDs /\ mTransID[s] \in Nat /\ SlotOf(mTransID[s]) = s
  BY SlotTID DEF RowInv, VInv, TypeOK
<1>2. commitOf[mTransID[s]] = Infinite
  BY DEF RowInv, CommitInv, Uncommitted
<1> QED BY <1>1, <1>2 DEF Known, Current, NullTID

\* The number of the next version is the one after the last.
LEMMA NewIsNext ==
  ASSUME NEW n \in Nat, Used = 1 .. n
  PROVE  NewVersion = n + 1 /\ NewVersion \notin Used /\ Used \cup {NewVersion} = 1 .. n + 1
<1>1. Cardinality(1 .. n) = n
  BY FS_Interval
<1> QED BY <1>1 DEF NewVersion

\* A new version, made from version p or from none.
LEMMA AddKept ==
  ASSUME VInv, VInv', RowInv, NEW s \in Slots, pc[s] = "run", NewVersion \in Versions, NEW p,
         create' = With(create, NewVersion, Inf(mTransID[s])),
         limit' = With(limit, NewVersion, FreeRow),
         prev' = With(prev, NewVersion, p),
         creator' = With(creator, NewVersion, mTransID[s]),
         limiter' = With(limiter, NewVersion, NullTID),
         deleted' = deleted, UNCHANGED <<viewVars, commitOf>>,
         \/ p = 0 /\ op[s].step = "none" /\ op' = op
         \/ p = op[s].v /\ op[s].step = "limited" /\ op' = [op EXCEPT ![s] = Resting]
  PROVE  RowInv' /\ RowsGoOn
<1> USE ViewSCNAssumption, RowVisibilityAssumption
<1>1. RowTypeOK /\ op \in [Slots -> OpType] /\ WriteInv(s)
  BY DEF RowInv
<1>2. PICK n \in 0 .. VersionCnt : Used = 1 .. n
  BY DEF RowInv
<1>3. PICK u : u = NewVersion
  OBVIOUS
<1>4. u = n + 1 /\ u \notin Used /\ Used \cup {u} = 1 .. n + 1 /\ n + 1 \in 0 .. VersionCnt /\ 0 \notin Used
  <2>1. n \in Nat
    OBVIOUS
  <2> QED BY <2>1, <1>2, <1>3, NewIsNext DEF Versions
<1>5. PICK m : m = mTransID[s]
  OBVIOUS
<1>6. /\ m \in TIDs /\ m \in Nat /\ m # NullTID /\ SlotOf(m) = s /\ Known(m) /\ Current(m)
      /\ commitOf[m] = Infinite
  BY <1>5, Runner
<1>7. DOMAIN limit = Used /\ DOMAIN prev = Used /\ DOMAIN creator = Used /\ DOMAIN limiter = Used
      /\ DOMAIN create = Used /\ deleted \subseteq Used
  BY <1>1 DEF RowTypeOK, Used
<1>8. /\ Used' = Used \cup {u}
      /\ create'[u] = Inf(m) /\ limit'[u] = FreeRow /\ prev'[u] = p /\ creator'[u] = m /\ limiter'[u] = NullTID
      /\ \A v \in Used : /\ create'[v] = create[v] /\ limit'[v] = limit[v] /\ prev'[v] = prev[v]
                         /\ creator'[v] = creator[v] /\ limiter'[v] = limiter[v]
  BY <1>3, <1>4, <1>5, <1>7 DEF With, Used
<1>9. /\ DOMAIN create' = Used' /\ DOMAIN limit' = Used' /\ DOMAIN prev' = Used'
      /\ DOMAIN creator' = Used' /\ DOMAIN limiter' = Used'
  BY <1>3, <1>7, <1>8 DEF With
<1>10. p = 0 \/ (p \in Used /\ limit[p] = Inf(m) /\ limiter[p] = m /\ \A w \in Used \ deleted : prev[w] # p)
  <2>1. SUFFICES ASSUME p = op[s].v, op[s].step = "limited"
                 PROVE  p \in Used /\ limit[p] = Inf(m) /\ limiter[p] = m /\ \A w \in Used \ deleted : prev[w] # p
    OBVIOUS
  <2>2. p \in Used /\ limit[p] = Inf(m) /\ \A w \in Used \ deleted : prev[w] # p
    BY <2>1, <1>1, <1>5 DEF WriteInv
  <2>3. LimitInv(p)
    BY <2>2 DEF RowInv
  <2> QED BY <2>2, <2>3 DEF LimitInv, Inf
<1>11. p \in 0 .. VersionCnt
  BY <1>2, <1>10
<1>12. /\ create' \in [Used' -> Stamp] /\ limit' \in [Used' -> Stamp] /\ prev' \in [Used' -> 0 .. VersionCnt]
       /\ creator' \in [Used' -> TIDs \cup {NullTID}] /\ limiter' \in [Used' -> TIDs \cup {NullTID}]
       /\ deleted' \subseteq Used'
  <2>1. Inf(m) \in Stamp /\ FreeRow \in Stamp
    BY <1>6 DEF Inf, FreeRow, Stamp
  <2>2. create' \in [Used' -> Stamp] /\ limit' \in [Used' -> Stamp]
    BY <2>1, <1>1, <1>3, <1>5, <1>7, <1>8 DEF With, RowTypeOK
  <2>3. prev' \in [Used' -> 0 .. VersionCnt]
    BY <1>1, <1>3, <1>7, <1>8, <1>11 DEF With, RowTypeOK
  <2>4. creator' \in [Used' -> TIDs \cup {NullTID}] /\ limiter' \in [Used' -> TIDs \cup {NullTID}]
    BY <1>1, <1>3, <1>5, <1>6, <1>7, <1>8 DEF With, RowTypeOK
  <2> QED BY <2>2, <2>3, <2>4, <1>7, <1>8
<1>13. op'[s].step = "none" /\ op' \in [Slots -> OpType] /\ \A r \in Slots : r # s => op'[r] = op[r]
  <2>1. FreeRow \in Stamp /\ 0 \in 0 .. LastSCN \cup {Infinite} /\ 0 \in 0 .. VersionCnt
    BY DEF FreeRow, Stamp
  <2>2. Resting \in OpType /\ Resting.step = "none"
    BY <2>1 DEF Resting, OpType, Finite
  <2> QED BY <2>2, <1>1
<1>14. WriteFrame(s)
  <2>1. ~Undoing(s)
    BY DEF Undoing
  <2> QED BY <2>1, <1>13 DEF WriteFrame, Reading
<1>15. VersionsGoOn
  BY <1>8 DEF VersionsGoOn
<1>16. mTransID' = mTransID
  BY <1>14, FrameViews
<1>17. ASSUME NEW r \in Slots, pc[r] # "run", Clean(r) PROVE Clean(r)'
  <2>1. mTransID[r] # m
    BY <1>5, <1>17, TIDsDiffer DEF RowInv
  <2>2. Inf(m) # Inf(mTransID[r]) /\ FreeRow # Inf(mTransID[r])
    BY <2>1 DEF Inf, FreeRow
  <2> QED BY <2>2, <1>8, <1>16, <1>17 DEF Clean, Made, Limited
<1>18. ASSUME NEW v \in Used PROVE CreateInv(v)' /\ LimitInv(v)'
  <2>1. CreateInv(v)'
    BY <1>8, <1>14, CreateSame
  <2>2. op'[s] = op[s] \/ ~(op[s].step = "locked" /\ op[s].v = v)
    OBVIOUS
  <2>3. LimitInv(v)'
    BY <2>2, <1>8, <1>14, LimitSame
  <2> QED BY <2>1, <2>3
<1>19. CreateInv(u)' /\ LimitInv(u)'
  <2>1. Known(m)' /\ Current(m)'
    BY <1>6, <1>14, FrameTIDs
  <2>2. Inf(m).kind = "inf" /\ Inf(m).of = m /\ FreeRow.kind = "free"
    BY DEF Inf, FreeRow
  <2>3. u \notin deleted'
    BY <1>4, <1>7
  <2> QED BY <2>1, <2>2, <2>3, <1>8 DEF CreateInv, LimitInv
<1>20. ASSUME NEW v \in Used, v \notin deleted, prev[v] # 0 PROVE ChainInv(v)'
  <2>1. /\ prev[v] \in Used /\ creator[v] # NullTID /\ limiter[prev[v]] = creator[v]
        /\ \A w \in Used \ deleted : prev[w] = prev[v] => w = v
    BY <1>20 DEF RowInv, ChainInv
  <2>2. p # prev[v]
    BY <1>10, <1>20
  <2> QED BY <2>1, <2>2, <1>8 DEF ChainInv
<1>21. \A v \in Used : ChainInv(v)'
  <2>1. \A v \in Used : v \in deleted \/ prev[v] = 0 => ChainInv(v)'
    BY <1>8 DEF ChainInv
  <2> QED BY <2>1, <1>20
<1>22. ChainInv(u)'
  BY <1>4, <1>6, <1>8, <1>10 DEF ChainInv
<1>23. ASSUME NEW r \in Slots PROVE WriteInv(r)'
  <2>1. CASE r = s
    BY <2>1, <1>13 DEF WriteInv
  <2>2. CASE r # s
    <3>1. op[r].step \in Changing => op[r].v \in Used /\ p # op[r].v
      <4>1. op[r].step \in Changing => op[r].v \in Used
        BY DEF RowInv, WriteInv, Changing
      <4>2. op[r].step \in Changing /\ p # 0 => op[r].v # p
        BY <2>2, <1>5, <1>10, NotAnothers
      <4> QED BY <4>1, <4>2, <1>4
    <3> QED BY <3>1, <2>2, <1>8, <1>13, <1>16, WriteSame
  <2> QED BY <2>1, <2>2
<1>24. \A v \in Used' : CreateInv(v)' /\ LimitInv(v)' /\ ChainInv(v)'
  BY <1>8, <1>18, <1>19, <1>21, <1>22
<1>25. \E i \in 0 .. VersionCnt : Used' = 1 .. i
  BY <1>4, <1>8
<1> QED BY <1>12, <1>14, <1>15, <1>17, <1>23, <1>24, <1>25, WriterInv

\* What remains to be shown of a step that changes who ends version x.
LEMMA LimitKept ==
  ASSUME VInv, VInv', RowInv, NEW s \in Slots, WriteFrame(s), NEW x \in Used,
         limit[x] \in {FreeRow, Lock(mTransID[s]), Inf(mTransID[s])},
         NEW y \in Stamp, NEW z \in TIDs \cup {NullTID},
         limit' = [limit EXCEPT ![x] = y], limiter' = [limiter EXCEPT ![x] = z],
         UNCHANGED <<create, prev, deleted, creator>>,
         \/ z = limiter[x]
         \/ limiter[x] = NullTID /\ z # NullTID /\ commitOf[z] = Infinite
         \/ z = NullTID /\ commitOf[limiter[x]] = Infinite,
         z = limiter[x] \/ \A w \in Used \ deleted : prev[w] # x,
         op'[s] = op[s] \/ ~(op[s].step = "locked" /\ op[s].v # x),
         \A r \in Slots : r # s \/ pc[s] # "run" => y # Inf(mTransID[r]),
         LimitInv(x)', WriteInv(s)'
  PROVE  RowInv' /\ RowsGoOn
<1>1. RowTypeOK
  BY DEF RowInv
<1>2. /\ create' = create /\ prev' = prev /\ deleted' = deleted /\ creator' = creator /\ Used' = Used
      /\ mTransID' = mTransID
  BY FrameViews DEF Used
<1>3. /\ limit'[x] = y /\ limiter'[x] = z
      /\ \A v \in Used : v # x => limit'[v] = limit[v] /\ limiter'[v] = limiter[v]
      /\ limit' \in [Used' -> Stamp] /\ limiter' \in [Used' -> TIDs \cup {NullTID}]
  BY <1>1, <1>2 DEF RowTypeOK
<1>4. VersionsGoOn
  BY <1>2, <1>3 DEF VersionsGoOn
<1>5. ASSUME NEW r \in Slots, pc[r] # "run", Clean(r) PROVE Clean(r)'
  <2>1. y # Inf(mTransID[r])
    BY <1>5
  <2> QED BY <2>1, <1>2, <1>3, <1>5 DEF Clean, Made, Limited
<1>6. ASSUME NEW v \in Used PROVE CreateInv(v)' /\ LimitInv(v)'
  <2>1. CreateInv(v)'
    BY <1>2, CreateSame
  <2>2. CASE v # x
    <3>1. op'[s] = op[s] \/ ~(op[s].step = "locked" /\ op[s].v = v)
      BY <2>2
    <3> QED BY <2>1, <2>2, <3>1, <1>3, LimitSame
  <2> QED BY <2>1, <2>2
<1>7. \A v \in Used : ChainInv(v)'
  BY <1>2, <1>3, ChainSame
<1>8. ASSUME NEW r \in Slots PROVE WriteInv(r)'
  <2>1. CASE r # s
    <3>1. op'[r] = op[r]
      BY <2>1 DEF WriteFrame
    <3>2. op[r].step \in Changing => op[r].v \in Used /\ op[r].v # x
      BY <2>1, NotAnothers DEF RowInv, WriteInv, Changing
    <3> QED BY <3>1, <3>2, <1>2, <1>3, WriteSame
  <2> QED BY <2>1
<1>9. /\ create' \in [Used' -> Stamp] /\ prev' \in [Used' -> 0 .. VersionCnt]
      /\ deleted' \subseteq Used' /\ creator' \in [Used' -> TIDs \cup {NullTID}]
      /\ \E n \in 0 .. VersionCnt : Used' = 1 .. n
  BY <1>1, <1>2 DEF RowTypeOK, RowInv
<1>10. \A v \in Used' : CreateInv(v)' /\ LimitInv(v)' /\ ChainInv(v)'
  BY <1>2, <1>6, <1>7
<1> QED BY <1>3, <1>4, <1>5, <1>8, <1>9, <1>10, WriterInv

\* The kinds of stamps tell them apart.
LEMMA Stamps ==
  /\ FreeRow \in Stamp /\ FreeRow.kind = "free"
  /\ \A t \in Nat : /\ Inf(t) \in Stamp /\ Lock(t) \in Stamp /\ At(t) \in Stamp
                    /\ Inf(t).kind = "inf" /\ Inf(t).of = t
                    /\ Lock(t).kind = "lock" /\ Lock(t).of = t
                    /\ At(t).kind = "scn" /\ At(t).of = t
BY DEF FreeRow, Inf, Lock, At, Stamp

\* The row lock of an update (smcRecord::updateVersionInternal).
LEMMA LockVersionKept ==
  ASSUME VInv, VInv', RowInv, NEW s \in Slots, NEW k \in Stmts, NEW x \in Versions, LockVersion(s, k, x)
  PROVE  RowInv' /\ RowsGoOn
<1>1. RowTypeOK /\ op \in [Slots -> OpType]
  BY DEF RowInv
<1>2. PICK m : m = mTransID[s]
  OBVIOUS
<1>3. /\ pc[s] = "run" /\ op[s].step = "none" /\ x \in Used /\ limit[x] = FreeRow
      /\ limit' = [limit EXCEPT ![x] = Lock(m)]
      /\ op' = [op EXCEPT ![s] = [op[s] EXCEPT !.step = "locked", !.v = x]]
      /\ UNCHANGED <<create, prev, deleted, creator, limiter>> /\ UNCHANGED <<viewVars, commitOf>>
  BY <1>1, <1>2 DEF LockVersion, Does, MayChange, historyVars, OpType
<1>4. m \in Nat /\ Lock(m) \in Stamp /\ mTransID' = mTransID
  BY <1>2, <1>3, Runner, Stamps DEF viewVars, transVars
<1>5. /\ op' \in [Slots -> OpType] /\ op'[s].step = "locked" /\ op'[s].v = x
      /\ \A r \in Slots : r # s => op'[r] = op[r]
  <2>0. x \in 0 .. VersionCnt
    BY RowVisibilityAssumption DEF Versions
  <2>1. [op[s] EXCEPT !.step = "locked", !.v = x] \in OpType
    BY <2>0, <1>1 DEF OpType
  <2> QED BY <2>1, <1>1, <1>3 DEF OpType
<1>6. WriteFrame(s)
  BY <1>3, <1>5 DEF WriteFrame, Undoing, Reading
<1>7. limiter[x] = NullTID /\ limiter \in [Used -> TIDs \cup {NullTID}]
  BY <1>1, <1>3, Stamps DEF RowInv, LimitInv, RowTypeOK
<1>8. limiter' = [limiter EXCEPT ![x] = NullTID]
  BY <1>3, <1>7
<1>9. limit'[x] = Lock(m)
  BY <1>1, <1>3 DEF RowTypeOK
<1>10. LimitInv(x)'
  BY <1>2, <1>3, <1>4, <1>5, <1>7, <1>9, Stamps DEF LimitInv
<1>11. WriteInv(s)'
  BY <1>2, <1>3, <1>4, <1>5, <1>9 DEF WriteInv, Used
<1>12. \A r \in Slots : Lock(m) # Inf(mTransID[r])
  BY DEF Lock, Inf
<1> QED BY <1>2, <1>3, <1>4, <1>6, <1>7, <1>8, <1>10, <1>11, <1>12, LimitKept

\* The old version of an update gets its limit.
LEMMA LimitVersionKept ==
  ASSUME VInv, VInv', RowInv, NEW s \in Slots, LimitVersion(s)
  PROVE  RowInv' /\ RowsGoOn
<1>1. RowTypeOK /\ op \in [Slots -> OpType] /\ WriteInv(s)
  BY DEF RowInv
<1>2. PICK m : m = mTransID[s]
  OBVIOUS
<1>3. PICK x : x = op[s].v
  OBVIOUS
<1>4. /\ pc[s] = "run" /\ op[s].step = "locked" /\ x \in Used /\ limit[x] = Lock(m)
      /\ limit' = [limit EXCEPT ![x] = Inf(m)] /\ limiter' = [limiter EXCEPT ![x] = m]
      /\ op' = [op EXCEPT ![s] = [op[s] EXCEPT !.step = "limited"]]
      /\ UNCHANGED <<create, prev, deleted, creator>> /\ UNCHANGED <<viewVars, commitOf>>
  BY <1>1, <1>2, <1>3 DEF LimitVersion, Does, Goto, WriteInv, OpType
<1>5. /\ m \in Nat /\ m \in TIDs /\ m # NullTID /\ Inf(m) \in Stamp /\ mTransID' = mTransID
      /\ commitOf[m] = Infinite /\ Known(m) /\ Current(m)
  BY <1>2, <1>4, Runner, Stamps DEF viewVars, transVars
<1>6. /\ op' \in [Slots -> OpType] /\ op'[s].step = "limited" /\ op'[s].v = x
      /\ \A r \in Slots : r # s => op'[r] = op[r]
  <2>1. [op[s] EXCEPT !.step = "limited"] \in OpType
    BY <1>1 DEF OpType
  <2> QED BY <2>1, <1>1, <1>3, <1>4 DEF OpType
<1>7. WriteFrame(s)
  BY <1>4, <1>6 DEF WriteFrame, Undoing, Reading
<1>8. limiter[x] = NullTID
  BY <1>4, <1>5, Stamps DEF RowInv, LimitInv
<1>9. \A w \in Used \ deleted : prev[w] # x
  <2>1. 0 \notin Used
    BY DEF RowInv
  <2> QED BY <2>1, <1>4, <1>8 DEF RowInv, ChainInv
<1>10. limit'[x] = Inf(m) /\ limiter'[x] = m
  BY <1>1, <1>4 DEF RowTypeOK
<1>11. LimitInv(x)'
  <2>1. Known(m)' /\ Current(m)'
    BY <1>5, <1>7, FrameTIDs
  <2> QED BY <2>1, <1>5, <1>10, Stamps DEF LimitInv
<1>12. WriteInv(s)'
  BY <1>2, <1>4, <1>5, <1>6, <1>9, <1>10 DEF WriteInv, Used
<1>13. \A r \in Slots : r # s => Inf(m) # Inf(mTransID[r])
  BY <1>2, TIDsDiffer DEF Inf, RowInv
<1> QED BY <1>2, <1>3, <1>4, <1>5, <1>7, <1>8, <1>9, <1>11, <1>12, <1>13, LimitKept

\* A deletion (smcRecord::removeVersion).
LEMMA RemoveVersionKept ==
  ASSUME VInv, VInv', RowInv, NEW s \in Slots, NEW k \in Stmts, NEW x \in Versions, RemoveVersion(s, k, x)
  PROVE  RowInv' /\ RowsGoOn
<1>1. RowTypeOK /\ op \in [Slots -> OpType]
  BY DEF RowInv
<1>2. PICK m : m = mTransID[s]
  OBVIOUS
<1>3. /\ pc[s] = "run" /\ op[s].step = "none" /\ x \in Used /\ limit[x] = FreeRow
      /\ limit' = [limit EXCEPT ![x] = Inf(m)] /\ limiter' = [limiter EXCEPT ![x] = m] /\ op' = op
      /\ UNCHANGED <<create, prev, deleted, creator>> /\ UNCHANGED <<viewVars, commitOf>>
  BY <1>2 DEF RemoveVersion, Does, MayChange
<1>4. /\ m \in Nat /\ m \in TIDs /\ m # NullTID /\ Inf(m) \in Stamp
      /\ commitOf[m] = Infinite /\ Known(m) /\ Current(m)
  BY <1>2, <1>3, Runner, Stamps
<1>5. WriteFrame(s)
  BY <1>1, <1>3 DEF WriteFrame, Undoing, viewVars, transVars
<1>6. limiter[x] = NullTID
  BY <1>3, Stamps DEF RowInv, LimitInv
<1>7. \A w \in Used \ deleted : prev[w] # x
  <2>1. 0 \notin Used
    BY DEF RowInv
  <2> QED BY <2>1, <1>3, <1>6 DEF RowInv, ChainInv
<1>8. limit'[x] = Inf(m) /\ limiter'[x] = m
  BY <1>1, <1>3 DEF RowTypeOK
<1>9. LimitInv(x)'
  <2>1. Known(m)' /\ Current(m)'
    BY <1>4, <1>5, FrameTIDs
  <2> QED BY <2>1, <1>4, <1>8, Stamps DEF LimitInv
<1>10. WriteInv(s)'
  BY <1>3 DEF WriteInv
<1>11. \A r \in Slots : r # s => Inf(m) # Inf(mTransID[r])
  BY <1>2, TIDsDiffer DEF Inf, RowInv
<1> QED BY <1>2, <1>3, <1>4, <1>5, <1>6, <1>7, <1>9, <1>10, <1>11, LimitKept

\* What stands in a version as its limit when a running transaction limited it.
LEMMA LimitedBy ==
  ASSUME VInv, RowInv, NEW s \in Slots, pc[s] = "run", NEW x \in Used, limiter[x] = mTransID[s]
  PROVE  limit[x] = Inf(mTransID[s])
<1>1. LimitInv(x) /\ limit[x] \in Stamp
  BY DEF RowInv, RowTypeOK
<1>2. mTransID[s] # NullTID /\ commitOf[mTransID[s]] = Infinite
  BY Runner
<1>3. limit[x].kind = "inf" /\ limit[x].of = mTransID[s]
  BY <1>1, <1>2 DEF LimitInv, Stamp
<1> QED BY <1>1, <1>3 DEF Stamp, Inf

\* The limit of the old version is taken back after the new one has got the delete bit.
LEMMA UndoLimitKept ==
  ASSUME VInv, VInv', RowInv, NEW s \in Slots, UndoLimit(s)
  PROVE  RowInv' /\ RowsGoOn
<1>1. RowTypeOK /\ op \in [Slots -> OpType] /\ WriteInv(s)
  BY DEF RowInv
<1>2. PICK m : m = mTransID[s]
  OBVIOUS
<1>3. PICK x : x = op[s].v
  OBVIOUS
<1>4. /\ pc[s] = "run" /\ op[s].step = "unlimit" /\ x \in Used /\ limit[x] = Inf(m)
      /\ \A w \in Used \ deleted : prev[w] # x
      /\ limit' = [limit EXCEPT ![x] = FreeRow] /\ limiter' = [limiter EXCEPT ![x] = NullTID]
      /\ op' = [op EXCEPT ![s] = [op[s] EXCEPT !.step = "undo", !.v = 0]]
      /\ UNCHANGED <<create, prev, deleted, creator>> /\ UNCHANGED <<viewVars, commitOf>>
  BY <1>1, <1>2, <1>3 DEF UndoLimit, Unlimit, Does, WriteInv, OpType
<1>5. m \in Nat /\ mTransID' = mTransID /\ commitOf[m] = Infinite
  BY <1>2, <1>4, Runner DEF viewVars, transVars
<1>6. op' \in [Slots -> OpType] /\ op'[s].step = "undo" /\ \A r \in Slots : r # s => op'[r] = op[r]
  <2>0. 0 \in 0 .. VersionCnt
    BY RowVisibilityAssumption
  <2>1. [op[s] EXCEPT !.step = "undo", !.v = 0] \in OpType
    BY <2>0, <1>1 DEF OpType
  <2> QED BY <2>1, <1>1, <1>4 DEF OpType
<1>7. WriteFrame(s)
  BY <1>4, <1>6 DEF WriteFrame, Undoing, Reading, viewVars
<1>8. limiter[x] = m
  BY <1>4, <1>5, Stamps DEF RowInv, LimitInv
<1>9. limit'[x] = FreeRow /\ limiter'[x] = NullTID
  BY <1>1, <1>4 DEF RowTypeOK
<1>10. LimitInv(x)'
  BY <1>9, Stamps DEF LimitInv
<1>11. WriteInv(s)'
  BY <1>6 DEF WriteInv
<1>12. \A r \in Slots : FreeRow # Inf(mTransID[r])
  BY DEF Inf, FreeRow
<1> QED BY <1>2, <1>4, <1>5, <1>7, <1>8, <1>10, <1>11, <1>12, Stamps, LimitKept

\* A deletion is undone: no version of the transaction was made from this one.
LEMMA UndoRemoveKept ==
  ASSUME VInv, VInv', RowInv, NEW s \in Slots, NEW x \in Versions, UndoRemove(s, x)
  PROVE  RowInv' /\ RowsGoOn
<1>1. RowTypeOK /\ op \in [Slots -> OpType]
  BY DEF RowInv
<1>2. PICK m : m = mTransID[s]
  OBVIOUS
<1>3. /\ pc[s] = "run" /\ op[s].step = "undo" /\ x \in Used /\ limit[x] = Inf(m) /\ op' = op
      /\ \A w \in Made(m) : prev[w] # x
      /\ limit' = [limit EXCEPT ![x] = FreeRow] /\ limiter' = [limiter EXCEPT ![x] = NullTID]
      /\ UNCHANGED <<create, prev, deleted, creator>> /\ UNCHANGED <<viewVars, commitOf>>
  BY <1>2 DEF UndoRemove, Unlimit, Does, Limited
<1>4. m \in Nat /\ commitOf[m] = Infinite
  BY <1>2, <1>3, Runner
<1>5. WriteFrame(s)
  BY <1>1, <1>3 DEF WriteFrame, Undoing, viewVars, transVars
<1>6. limiter[x] = m
  BY <1>3, <1>4, Stamps DEF RowInv, LimitInv
<1>7. ASSUME NEW w \in Used \ deleted, prev[w] = x PROVE FALSE
  <2>1. 0 \notin Used
    BY DEF RowInv
  <2>2. creator[w] = m
    BY <2>1, <1>3, <1>6, <1>7 DEF RowInv, ChainInv
  <2>3. CreateInv(w) /\ create[w] \in Stamp
    BY <1>1 DEF RowInv, RowTypeOK
  <2>4. create[w] = Inf(m)
    BY <2>2, <2>3, <1>4 DEF CreateInv, Stamp, Inf
  <2> QED BY <2>4, <1>3, <1>7 DEF Made
<1>8. limit'[x] = FreeRow /\ limiter'[x] = NullTID
  BY <1>1, <1>3 DEF RowTypeOK
<1>9. LimitInv(x)'
  BY <1>8, Stamps DEF LimitInv
<1>10. WriteInv(s)'
  BY <1>3 DEF WriteInv
<1>11. \A r \in Slots : FreeRow # Inf(mTransID[r])
  BY DEF Inf, FreeRow
<1>12. \A w \in Used \ deleted : prev[w] # x
  BY <1>7
<1> QED BY <1>2, <1>3, <1>4, <1>5, <1>6, <1>9, <1>10, <1>11, <1>12, Stamps, LimitKept

\* The limit of a version gets the commit SCN (smcRecord::setRowNextToSCN).
LEMMA StampLimitKept ==
  ASSUME VInv, VInv', RowInv, NEW s \in Slots, NEW x \in Versions, StampLimit(s, x)
  PROVE  RowInv' /\ RowsGoOn
<1>1. TypeOK /\ RowTypeOK /\ op \in [Slots -> OpType] /\ CommitInv(s)
  BY DEF RowInv, VInv
<1>2. PICK m : m = mTransID[s]
  OBVIOUS
<1>3. PICK c : c = mCommitSCN[s]
  OBVIOUS
<1>4. /\ pc[s] = "finish" /\ mStatus[s] = "COMMIT" /\ x \in Used /\ limit[x] = Inf(m) /\ op' = op
      /\ limit' = [limit EXCEPT ![x] = At(c)]
      /\ UNCHANGED <<create, prev, deleted, creator, limiter>> /\ UNCHANGED <<viewVars, commitOf>>
  BY <1>2, <1>3 DEF StampLimit, Limited, historyVars
<1>5. ~Clean(s)
  BY <1>2, <1>4 DEF Clean, Limited
<1>6. op[s].step = "none" /\ commitOf[m] = c /\ c # Infinite
  BY <1>1, <1>2, <1>3, <1>4, <1>5 DEF CommitInv
<1>7. c \in Nat /\ At(c) \in Stamp /\ m \in Nat
  <2>1. c \in Nat /\ m \in Nat
    BY <1>1, <1>2, <1>3, ViewSCNAssumption DEF TypeOK, Infinite
  <2> QED BY <2>1, Stamps
<1>8. WriteFrame(s)
  BY <1>1, <1>4, <1>6 DEF WriteFrame, Undoing, viewVars
<1>9. limiter[x] = m /\ limiter \in [Used -> TIDs \cup {NullTID}]
  <2>1. limiter[x] = m
    BY <1>4, <1>7, Stamps DEF RowInv, LimitInv
  <2>2. limiter \in [Used -> TIDs \cup {NullTID}]
    BY <1>1 DEF RowTypeOK
  <2> QED BY <2>1, <2>2
<1>10. limiter' = [limiter EXCEPT ![x] = m] /\ m \in TIDs \cup {NullTID}
  BY <1>4, <1>9
<1>11. limit'[x] = At(c)
  BY <1>1, <1>4 DEF RowTypeOK
<1>12. LimitInv(x)'
  <2>1. m # NullTID
    BY <1>7 DEF NullTID
  <2> QED BY <2>1, <1>4, <1>6, <1>7, <1>9, <1>11, Stamps DEF LimitInv
<1>13. WriteInv(s)'
  BY <1>4, <1>6 DEF WriteInv
<1>14. \A r \in Slots : At(c) # Inf(mTransID[r])
  BY DEF At, Inf
<1> QED BY <1>2, <1>4, <1>7, <1>8, <1>9, <1>10, <1>12, <1>13, <1>14, LimitKept

\* What remains to be shown of a step that changes who made version x, or gives it the
\* delete bit.
LEMMA MadeKept ==
  ASSUME VInv, VInv', RowInv, NEW s \in Slots, WriteFrame(s), NEW x \in Used, x \notin deleted,
         NEW y \in Stamp, create' = [create EXCEPT ![x] = y],
         deleted' = deleted \/ (deleted' = deleted \cup {x} /\ commitOf[creator[x]] = Infinite),
         UNCHANGED <<limit, prev, creator, limiter>>,
         op'[s] = op[s] \/ op[s].step # "locked",
         \A r \in Slots : y = Inf(mTransID[r]) => create[x] = y,
         CreateInv(x)', WriteInv(s)'
  PROVE  RowInv' /\ RowsGoOn
<1>1. RowTypeOK
  BY DEF RowInv
<1>2. /\ limit' = limit /\ prev' = prev /\ limiter' = limiter /\ creator' = creator
      /\ mTransID' = mTransID
  BY FrameViews
<1>3. /\ Used' = Used /\ create'[x] = y /\ \A v \in Used : v # x => create'[v] = create[v]
      /\ create' \in [Used' -> Stamp]
  BY <1>1 DEF RowTypeOK, Used
<1>4. /\ deleted \subseteq deleted' /\ deleted' \subseteq Used'
      /\ \A v \in Used : v # x => (v \in deleted' <=> v \in deleted)
  BY <1>1, <1>3 DEF RowTypeOK
<1>5. VersionsGoOn
  BY <1>2, <1>3, <1>4 DEF VersionsGoOn
<1>6. ASSUME NEW r \in Slots, pc[r] # "run", Clean(r) PROVE Clean(r)'
  <2>1. \A v \in Used \ deleted' : create'[v] = Inf(mTransID[r]) => create[v] = Inf(mTransID[r])
    BY <1>3
  <2> QED BY <2>1, <1>2, <1>3, <1>4, <1>6 DEF Clean, Made, Limited
<1>7. ASSUME NEW v \in Used PROVE CreateInv(v)' /\ LimitInv(v)'
  <2>1. op'[s] = op[s] \/ ~(op[s].step = "locked" /\ op[s].v = v)
    OBVIOUS
  <2>2. LimitInv(v)'
    BY <2>1, <1>2, LimitSame
  <2>3. v # x => CreateInv(v)'
    BY <1>2, <1>3, <1>4, CreateSame
  <2> QED BY <2>2, <2>3
<1>8. \A v \in Used : ChainInv(v)'
  BY <1>2, <1>3, <1>4, ChainSame
<1>9. ASSUME NEW r \in Slots PROVE WriteInv(r)'
  <2>1. CASE r # s
    <3>1. op'[r] = op[r]
      BY <2>1 DEF WriteFrame
    <3> QED BY <3>1, <1>2, <1>3, <1>4, WriteSame
  <2> QED BY <2>1
<1>10. /\ limit' \in [Used' -> Stamp] /\ prev' \in [Used' -> 0 .. VersionCnt]
       /\ creator' \in [Used' -> TIDs \cup {NullTID}] /\ limiter' \in [Used' -> TIDs \cup {NullTID}]
       /\ \E n \in 0 .. VersionCnt : Used' = 1 .. n
  BY <1>1, <1>2, <1>3 DEF RowTypeOK, RowInv
<1>11. \A v \in Used' : CreateInv(v)' /\ LimitInv(v)' /\ ChainInv(v)'
  BY <1>3, <1>7, <1>8
<1> QED BY <1>3, <1>4, <1>5, <1>6, <1>9, <1>10, <1>11, WriterInv

\* The creation of a version gets the commit SCN (smcRecord::setSCN).
LEMMA StampCreateKept ==
  ASSUME VInv, VInv', RowInv, NEW s \in Slots, NEW x \in Versions, StampCreate(s, x)
  PROVE  RowInv' /\ RowsGoOn
<1>1. TypeOK /\ RowTypeOK /\ op \in [Slots -> OpType] /\ CommitInv(s)
  BY DEF RowInv, VInv
<1>2. PICK m : m = mTransID[s]
  OBVIOUS
<1>3. PICK c : c = mCommitSCN[s]
  OBVIOUS
<1>4. /\ pc[s] = "finish" /\ mStatus[s] = "COMMIT" /\ x \in Used /\ x \notin deleted /\ create[x] = Inf(m)
      /\ create' = [create EXCEPT ![x] = At(c)] /\ op' = op
      /\ deleted' = deleted /\ UNCHANGED <<limit, prev, creator, limiter>> /\ UNCHANGED <<viewVars, commitOf>>
  BY <1>2, <1>3 DEF StampCreate, Made, historyVars
<1>5. ~Clean(s)
  BY <1>2, <1>4 DEF Clean, Made
<1>6. op[s].step = "none" /\ commitOf[m] = c /\ c # Infinite
  BY <1>1, <1>2, <1>3, <1>4, <1>5 DEF CommitInv
<1>7. c \in Nat /\ At(c) \in Stamp /\ m \in Nat
  <2>1. c \in Nat /\ m \in Nat
    BY <1>1, <1>2, <1>3, ViewSCNAssumption DEF TypeOK, Infinite
  <2> QED BY <2>1, Stamps
<1>8. WriteFrame(s)
  BY <1>1, <1>4, <1>6 DEF WriteFrame, Undoing, viewVars
<1>9. creator[x] = m /\ Known(m)
  <2>1. CreateInv(x)
    BY <1>4 DEF RowInv
  <2>2. m # NullTID
    BY <1>7 DEF NullTID
  <2> QED BY <2>1, <2>2, <1>4, <1>7, Stamps DEF CreateInv
<1>10. create'[x] = At(c)
  BY <1>4 DEF Used
<1>11. CreateInv(x)'
  <2>1. Known(m)'
    BY <1>7, <1>8, <1>9, FrameTIDs
  <2> QED BY <2>1, <1>4, <1>6, <1>7, <1>9, <1>10, Stamps DEF CreateInv
<1>12. WriteInv(s)'
  BY <1>4, <1>6 DEF WriteInv
<1>13. \A r \in Slots : At(c) # Inf(mTransID[r])
  BY DEF At, Inf
<1> QED BY <1>4, <1>7, <1>8, <1>11, <1>12, <1>13, MadeKept

\* The new version of a change that is undone gets the delete bit; then the version it
\* was made from is the one to be given back.
LEMMA UndoNewKept ==
  ASSUME VInv, VInv', RowInv, NEW s \in Slots, NEW x \in Versions, UndoNew(s, x)
  PROVE  RowInv' /\ RowsGoOn
<1>1. RowTypeOK /\ op \in [Slots -> OpType]
  BY DEF RowInv
<1>2. PICK m : m = mTransID[s]
  OBVIOUS
<1>3. PICK p : p = prev[x]
  OBVIOUS
<1>4. /\ pc[s] = "run" /\ op[s].step = "undo" /\ x \in Used /\ x \notin deleted /\ create[x] = Inf(m)
      /\ deleted' = deleted \cup {x}
      /\ op' = (IF p = 0 THEN op ELSE [op EXCEPT ![s] = [op[s] EXCEPT !.step = "unlimit", !.v = p]])
      /\ UNCHANGED <<create, limit, prev, creator, limiter>> /\ UNCHANGED <<viewVars, commitOf>>
  BY <1>1, <1>2, <1>3 DEF UndoNew, LastMade, Made, Does, historyVars, OpType
<1>5. m \in Nat /\ m # NullTID /\ commitOf[m] = Infinite /\ Known(m) /\ mTransID' = mTransID /\ SlotOf(m) = s
  BY <1>2, <1>4, Runner DEF viewVars, transVars
<1>6. creator[x] = m
  BY <1>4, <1>5, Stamps DEF RowInv, CreateInv
<1>7. /\ op' \in [Slots -> OpType] /\ op'[s].step \in {"undo", "unlimit"}
      /\ \A r \in Slots : r # s => op'[r] = op[r]
      /\ op'[s].step = "unlimit" => p # 0 /\ op'[s].v = p
  <2>1. p \in 0 .. VersionCnt
    BY <1>1, <1>3, <1>4 DEF RowTypeOK
  <2>2. [op[s] EXCEPT !.step = "unlimit", !.v = p] \in OpType
    BY <2>1, <1>1 DEF OpType
  <2> QED BY <2>2, <1>1, <1>4 DEF OpType
<1>8. pc' = pc
  BY <1>4 DEF viewVars
<1>9. WriteFrame(s)
  BY <1>4, <1>7, <1>8 DEF WriteFrame, Undoing, Reading
<1>10. create' = [create EXCEPT ![x] = Inf(m)] /\ create'[x] = Inf(m) /\ Inf(m) \in Stamp
  BY <1>1, <1>4, <1>5, Stamps DEF RowTypeOK
<1>11. CreateInv(x)'
  <2>1. Undoing(s)
    BY <1>4 DEF Undoing
  <2>2. Never(m)
    BY <2>1, <1>5 DEF Never
  <2>3. Never(m)' /\ Known(m)'
    BY <2>2, <1>5, <1>9, FrameTIDs
  <2> QED BY <2>3, <1>4, <1>5, <1>6, <1>10, Stamps DEF CreateInv
<1>12. ASSUME p # 0
       PROVE  p \in Used /\ limit[p] = Inf(m) /\ \A w \in Used \ deleted' : prev[w] # p
  <2>1. ChainInv(x)
    BY <1>4 DEF RowInv
  <2>2. p \in Used /\ limiter[p] = m /\ \A w \in Used \ deleted : prev[w] = p => w = x
    BY <2>1, <1>3, <1>4, <1>6, <1>12 DEF ChainInv
  <2> QED BY <2>2, <1>2, <1>4, LimitedBy
<1>13. WriteInv(s)'
  BY <1>2, <1>4, <1>5, <1>7, <1>12 DEF WriteInv, Used
<1>14. \A r \in Slots : Inf(m) = Inf(mTransID[r]) => create[x] = Inf(m)
  BY <1>4
<1>15. commitOf[creator[x]] = Infinite
  BY <1>5, <1>6
<1> QED BY <1>4, <1>9, <1>10, <1>11, <1>13, <1>14, <1>15, MadeKept

\* A rollback begins.
LEMMA StartUndoKept ==
  ASSUME VInv, VInv', RowInv, NEW s \in Slots, StartUndo(s)
  PROVE  RowInv' /\ RowsGoOn
<1>1. RowTypeOK /\ op \in [Slots -> OpType]
  BY DEF RowInv
<1>2. /\ pc[s] = "run" /\ op[s].step = "none" /\ op' = [op EXCEPT ![s] = [op[s] EXCEPT !.step = "undo"]]
      /\ UNCHANGED <<viewVars, commitOf>>
      /\ create' = create /\ limit' = limit /\ prev' = prev /\ deleted' = deleted
      /\ creator' = creator /\ limiter' = limiter
  BY <1>1 DEF StartUndo, Does, Goto, rowVars, historyVars, OpType
<1>3. op' \in [Slots -> OpType] /\ op'[s].step = "undo" /\ \A r \in Slots : r # s => op'[r] = op[r]
  <2>1. [op[s] EXCEPT !.step = "undo"] \in OpType
    BY <1>1 DEF OpType
  <2> QED BY <2>1, <1>1, <1>2 DEF OpType
<1>4. WriteFrame(s)
  BY <1>2, <1>3 DEF WriteFrame, Undoing, Reading, viewVars
<1>5. mTransID' = mTransID /\ Used' = Used
  BY <1>2, <1>4, FrameViews DEF Used
<1>6. VersionsGoOn
  BY <1>2, <1>5 DEF VersionsGoOn
<1>7. ASSUME NEW v \in Used PROVE CreateInv(v)' /\ LimitInv(v)'
  <2>1. op'[s] = op[s] \/ ~(op[s].step = "locked" /\ op[s].v = v)
    BY <1>2
  <2> QED BY <2>1, <1>2, <1>4, CreateSame, LimitSame
<1>8. \A v \in Used : ChainInv(v)'
  BY <1>2, <1>5, ChainSame
<1>9. ASSUME NEW r \in Slots PROVE WriteInv(r)'
  <2>1. CASE r = s
    BY <2>1, <1>3 DEF WriteInv
  <2>2. CASE r # s
    BY <2>2, <1>2, <1>3, <1>5, WriteSame
  <2> QED BY <2>1, <2>2
<1>10. \A r \in Slots : Clean(r) => Clean(r)'
  BY <1>2, <1>5 DEF Clean, Made, Limited
<1>11. /\ create' \in [Used' -> Stamp] /\ limit' \in [Used' -> Stamp] /\ prev' \in [Used' -> 0 .. VersionCnt]
       /\ deleted' \subseteq Used' /\ creator' \in [Used' -> TIDs \cup {NullTID}]
       /\ limiter' \in [Used' -> TIDs \cup {NullTID}] /\ \E n \in 0 .. VersionCnt : Used' = 1 .. n
  BY <1>1, <1>2, <1>5 DEF RowTypeOK, RowInv
<1>12. \A v \in Used' : CreateInv(v)' /\ LimitInv(v)' /\ ChainInv(v)'
  BY <1>5, <1>7, <1>8
<1> QED BY <1>4, <1>6, <1>9, <1>10, <1>11, <1>12, WriterInv

\* Every step of a writer.
LEMMA WriteKept ==
  ASSUME VInv, VInv', RowInv, NEW s \in Slots, Write(s)
  PROVE  RowInv' /\ RowsGoOn
<1>1. CASE InsertVersion(s)
  BY <1>1, AddKept DEF InsertVersion, Does
<1>2. CASE SetAllocated(s)
  BY <1>2, AddKept DEF SetAllocated, Does, Rest
<1> QED BY <1>1, <1>2, LimitVersionKept, StartUndoKept, UndoLimitKept, LockVersionKept, RemoveVersionKept,
        UndoNewKept, UndoRemoveKept, StampCreateKept, StampLimitKept DEF Write

(***************************************************************************)
(* Theorems.                                                               *)
(***************************************************************************)

\* A row that nobody has touched since it was committed.
LEMMA RowInitially == RowInit => VInv /\ RowInv
<1> SUFFICES ASSUME RowInit PROVE VInv /\ RowInv
  OBVIOUS
<1> USE ViewSCNAssumption, RowVisibilityAssumption
<1>1. Init /\ VInv
  BY Initially DEF RowInit
<1>2. Used = {1} /\ Used = 1 .. 1 /\ 1 \in 0 .. VersionCnt
  BY DEF RowInit, Used
<1>3. /\ create[1] = At(0) /\ limit[1] = FreeRow /\ prev[1] = 0 /\ deleted = {}
      /\ creator[1] = NullTID /\ limiter[1] = NullTID
      /\ create = [v \in Used |-> At(0)] /\ limit = [v \in Used |-> FreeRow] /\ prev = [v \in Used |-> 0]
      /\ creator = [v \in Used |-> NullTID] /\ limiter = [v \in Used |-> NullTID]
  BY <1>2 DEF RowInit
<1>4. Resting \in OpType /\ Resting.step = "none"
  <2>1. 0 \in 0 .. LastSCN \cup {Infinite} /\ 0 \in 0 .. VersionCnt
    OBVIOUS
  <2> QED BY <2>1, Stamps DEF Resting, OpType, Finite
<1>5. op \in [Slots -> OpType] /\ \A s \in Slots : op[s].step = "none"
  BY <1>4 DEF RowInit
<1>6. /\ commitOf \in [TIDs \cup {NullTID} -> 0 .. LastSCN \cup {Infinite}]
      /\ commitOf[NullTID] = 0 /\ \A t \in TIDs : commitOf[t] = Infinite
  <2>1. NullTID \notin TIDs
    BY DEF TIDs, NullTID
  <2> QED BY <2>1 DEF RowInit
<1>7. RowTypeOK
  <2>1. TypeOK /\ At(0) \in Stamp /\ FreeRow \in Stamp /\ Used \subseteq Versions
    BY <1>1, <1>2, Stamps DEF VInv, Versions
  <2>2. \A s \in Slots : op[s].v \in 0 .. VersionCnt /\ op[s].create \in Stamp /\ op[s].limit \in Stamp
    BY <1>5 DEF OpType
  <2> QED BY <2>1, <2>2, <1>3, <1>6 DEF RowTypeOK
<1>8. HistoryInv
  BY <1>6 DEF HistoryInv
<1>9. ASSUME NEW s \in Slots PROVE CommitInv(s) /\ TidInv(s) /\ WriteInv(s) /\ ReadInv(s)
  <2>1. mTransID[s] = s /\ s \in Nat /\ mTransCnt \in Nat /\ s < mTransCnt
    BY <1>1 DEF Init, Slots
  <2>2. TidInv(s)
    <3>1. mTransID[s] = 0 * mTransCnt + s /\ 0 \in 0 .. LastTrans
      BY <2>1
    <3>2. pc[s] = "end"
      BY <1>1 DEF Init
    <3> QED BY <3>1, <3>2 DEF TidInv
  <2>3. mTransID[s] \in TIDs /\ mTransID[s] \in Nat
    BY <2>1, <2>2, SlotTID
  <2>4. Clean(s)
    <3>1. At(0) # Inf(mTransID[s]) /\ FreeRow # Inf(mTransID[s])
      BY DEF At, Inf, FreeRow
    <3> QED BY <3>1, <1>2, <1>3 DEF Clean, Made, Limited
  <2>5. CommitInv(s)
    BY <2>3, <2>4, <1>1, <1>5, <1>6 DEF Init, CommitInv, Open, Uncommitted
  <2> QED BY <2>2, <2>5, <1>5 DEF WriteInv, ReadInv, ReadOK, Reading
<1>10. CreateInv(1) /\ LimitInv(1) /\ ChainInv(1)
  <2>1. 0 # Infinite
    BY DEF Infinite
  <2> QED BY <2>1, <1>3, <1>6, Stamps DEF CreateInv, LimitInv, ChainInv
<1> QED BY <1>1, <1>2, <1>5, <1>7, <1>8, <1>9, <1>10 DEF RowInv

\* Every step keeps the invariant and history.
LEMMA RowStep == VInv /\ RowInv /\ [RowNext]_visVars => VInv' /\ RowInv' /\ (RowsGoOn \/ UNCHANGED visVars)
<1> SUFFICES ASSUME VInv, RowInv, [RowNext]_visVars
             PROVE  VInv' /\ RowInv' /\ (RowsGoOn \/ UNCHANGED visVars)
  OBVIOUS
<1>1. VInv'
  BY ViewPart
<1>2. CASE RowNext
  BY <1>1, <1>2, WriteKept, ReadKept, BetweenKept, TakeKept, EndKept, DecideKept DEF RowNext
<1>3. CASE UNCHANGED visVars
  <2>1. RowInv'
    BY <1>1, <1>3 DEF visVars, viewVars, rowVars, historyVars, transVars, stmtVars, RowInv, RowTypeOK, VInv, Used,
       HistoryInv, CommitInv, TidInv, WriteInv, ReadInv, ReadOK, CreateInv, LimitInv, ChainInv, Known, Current,
       Never, Undoing, Began, Over, CreateCopy, LimitCopy, Asked, AskInv, InSnapshot, Clean, Made, Limited, Open
  <2> QED BY <2>1, <1>1, <1>3
<1> QED BY <1>2, <1>3

\* The inductive invariant: where every transaction stands, what stands in every version
\* and what every writer and reader knows of them.
THEOREM RowInvariance == RowSpec => [](VInv /\ RowInv)
<1>1. VInv /\ RowInv /\ [RowNext]_visVars => (VInv /\ RowInv)'
  BY RowStep
<1> QED BY <1>1, RowInitially, PTL DEF RowSpec

\* Every variable keeps its type.
THEOREM RowTypes == RowSpec => []RowTypeOK
<1>1. RowInv => RowTypeOK
  BY DEF RowInv
<1> QED BY <1>1, RowInvariance, PTL

\* A verdict is membership in the snapshot of the view, if no writer ended between the
\* reading of the row and of its slot (checkSCN, getTransCommitSCN against getCommitSCN).
THEOREM VerdictsExact == RowSpec => []VerdictExact
<1>1. RowInv => VerdictExact
  BY DEF RowInv, ReadInv, ReadOK, Reading, VerdictExact, Judged
<1> QED BY <1>1, RowInvariance, PTL

\* Nothing is seen that was committed after the view was taken or not at all (checkSCN).
THEOREM NoReadFromFuture == RowSpec => []NoFutureRead
<1>1. RowInv => NoFutureRead
  BY DEF RowInv, ReadInv, ReadOK, Reading, NoFutureRead, Judged, Began
<1> QED BY <1>1, RowInvariance, PTL

\* An infinite SCN or a lock in a row is that of a transaction still in its slot
\* (processOIDList and undo before end).
THEOREM OwnersStay == RowSpec => []InfiniteHasOwner
<1>1. VInv /\ RowInv => InfiniteHasOwner
  <2> SUFFICES ASSUME VInv, RowInv, NEW v \in Used
               PROVE  /\ create[v].kind = "inf" /\ v \notin deleted => Current(create[v].of)
                      /\ limit[v].kind \in {"inf", "lock"} => Current(limit[v].of)
    BY DEF InfiniteHasOwner, Current
  <2>1. CreateInv(v) /\ LimitInv(v)
    BY DEF RowInv
  <2>2. limit[v].kind = "lock" => Current(limit[v].of)
    <3>1. \A s \in Slots : SlotOf(mTransID[s]) = s
      BY SlotTID DEF RowInv
    <3> QED BY <3>1, <2>1 DEF LimitInv, Current
  <2> QED BY <2>1, <2>2 DEF CreateInv, LimitInv
<1> QED BY <1>1, RowInvariance, PTL

\* No update is lost: who has updated or deleted a version is replaced by nobody before
\* he has rolled back (recordLockValidation).
THEOREM NoLostUpdate == RowSpec => FirstUpdaterWins
<1>1. VInv /\ RowInv /\ [RowNext]_visVars =>
        [\A v \in Used : limiter[v] # NullTID /\ limiter'[v] # limiter[v] =>
           limiter'[v] = NullTID /\ commitOf[limiter[v]] = Infinite]_visVars
  <2> SUFFICES ASSUME VInv, RowInv, [RowNext]_visVars, ~UNCHANGED visVars
               PROVE  \A v \in Used : limiter[v] # NullTID /\ limiter'[v] # limiter[v] =>
                        limiter'[v] = NullTID /\ commitOf[limiter[v]] = Infinite
    OBVIOUS
  <2>1. RowsGoOn
    BY RowStep
  <2> QED BY <2>1 DEF RowsGoOn, VersionsGoOn
<1> QED BY <1>1, RowInvariance, PTL DEF RowSpec, FirstUpdaterWins
=============================================================================
