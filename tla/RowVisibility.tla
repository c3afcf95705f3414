--------------------------- MODULE RowVisibility ---------------------------
(***************************************************************************)
(* Versions of a row of a memory table and who sees them.  A writer puts   *)
(* its TID where an SCN belongs (an infinite SCN), takes a commit SCN,     *)
(* stamps the versions with it and only then ends (smxTrans::commit,       *)
(* smxOIDList::processOIDList).  A reader copies the SCNs of a version and *)
(* asks the slot of the writer when one is infinite (smnManager::checkSCN, *)
(* smxTrans::getTransCommitSCN), without a latch in common with the writer.*)
(*                                                                         *)
(* Reading what the own transaction wrote, SELECT FOR UPDATE and legacy    *)
(* transactions are left out.                                              *)
(***************************************************************************)
EXTENDS ViewSCN

CONSTANT VersionCnt   \* bound on the versions made, the first one included

ASSUME RowVisibilityAssumption == VersionCnt \in Nat \ {0} /\ ~FetchAcrossCommit

VARIABLES
  create,    \* mCreateSCN of each version in use
  limit,     \* its mLimitSCN
  prev,      \* the version it was made from, 0 for none
  deleted,   \* versions whose mCreateSCN has the delete bit
  op,        \* what the thread of a slot does with a version
  creator,   \* history: the TID that made a version
  limiter,   \* history: the TID that updated or deleted it
  commitOf   \* history: the SCN a TID took at commit

rowVars == <<create, limit, prev, deleted>>
historyVars == <<creator, limiter, commitOf>>
visVars == <<viewVars, rowVars, op, historyVars>>

Versions == 1 .. VersionCnt
Used == DOMAIN create
TIDs == 0 .. (LastTrans + 1) * mTransCnt
SlotOf(t) == t % mTransCnt

\* What stands in mCreateSCN or mLimitSCN: an SCN, an infinite SCN with a
\* TID, a row lock with a TID, or SM_SCN_FREE_ROW.
Stamp == [kind : {"scn", "inf", "lock", "free"}, of : Nat]
At(n) == [kind |-> "scn", of |-> n]
Inf(t) == [kind |-> "inf", of |-> t]
Lock(t) == [kind |-> "lock", of |-> t]
FreeRow == [kind |-> "free", of |-> 0]

Resting == [step |-> "none", v |-> 0, view |-> 0, create |-> FreeRow, limit |-> FreeRow,
            done |-> {}, status |-> "END", scn |-> 0, late |-> FALSE, seen |-> FALSE]

RowInit ==
  /\ Init
  /\ create = [v \in {1} |-> At(0)]
  /\ limit = [v \in {1} |-> FreeRow]
  /\ prev = [v \in {1} |-> 0]
  /\ deleted = {}
  /\ op = [s \in Slots |-> Resting]
  /\ creator = [v \in {1} |-> NullTID]
  /\ limiter = [v \in {1} |-> NullTID]
  /\ commitOf = [t \in TIDs \cup {NullTID} |-> IF t = NullTID THEN 0 ELSE Infinite]

\* f with value x for v, which may be new.
With(f, v, x) == [w \in DOMAIN f \cup {v} |-> IF w = v THEN x ELSE f[w]]

Does(s, from) == pc[s] = "run" /\ op[s].step = from
Goto(s, step) == op' = [op EXCEPT ![s].step = step]
Rest(s) == op' = [op EXCEPT ![s] = Resting]

(***************************************************************************)
(* Writers.                                                                *)
(***************************************************************************)

\* The SCN of v's creator as the writer's validation sees it: it reads the
\* row itself again where the slot has gone on.
Settled(v) ==
  IF create[v].kind = "inf" /\ mTransID[SlotOf(create[v].of)] = create[v].of
     /\ mStatus[SlotOf(create[v].of)] = "COMMIT"
  THEN At(mCommitSCN[SlotOf(create[v].of)])
  ELSE create[v]

\* Mutant of MayChange: the version may have been changed by another.
MayChangeAny(s, k, v) ==
  /\ k \in Open(s)
  /\ v \in Used \ deleted
  /\ limit[v].kind # "lock"
  /\ \/ create[v] = Inf(mTransID[s])
     \/ Settled(v).kind = "scn" /\ Settled(v).of <= view[s][k]

\* smcRecord::recordLockValidation under the page latch: the version is the
\* last one, nobody has locked it, and the statement sees it.
MayChange(s, k, v) ==
  /\ k \in Open(s)
  /\ v \in Used \ deleted
  /\ limit[v] = FreeRow
  /\ \/ create[v] = Inf(mTransID[s])
     \/ Settled(v).kind = "scn" /\ Settled(v).of <= view[s][k]

NewVersion == Cardinality(Used) + 1

\* smcRecord::insertVersion
InsertVersion(s) ==
  /\ Does(s, "none")
  /\ Open(s) # {}
  /\ NewVersion \in Versions
  /\ create' = With(create, NewVersion, Inf(mTransID[s]))
  /\ limit' = With(limit, NewVersion, FreeRow)
  /\ prev' = With(prev, NewVersion, 0)
  /\ creator' = With(creator, NewVersion, mTransID[s])
  /\ limiter' = With(limiter, NewVersion, NullTID)
  /\ UNCHANGED <<viewVars, deleted, op, commitOf>>

\* smcRecord::updateVersionInternal: lock the old version, then set its limit,
\* then make the new version.
LockVersion(s, k, v) ==
  /\ Does(s, "none")
  /\ MayChange(s, k, v)
  /\ NewVersion \in Versions
  /\ limit' = [limit EXCEPT ![v] = Lock(mTransID[s])]
  /\ op' = [op EXCEPT ![s].step = "locked", ![s].v = v]
  /\ UNCHANGED <<viewVars, create, prev, deleted, historyVars>>

LimitVersion(s) ==
  /\ Does(s, "locked")
  /\ limit' = [limit EXCEPT ![op[s].v] = Inf(mTransID[s])]
  /\ limiter' = [limiter EXCEPT ![op[s].v] = mTransID[s]]
  /\ Goto(s, "limited")
  /\ UNCHANGED <<viewVars, create, prev, deleted, creator, commitOf>>

SetAllocated(s) ==
  /\ Does(s, "limited")
  /\ NewVersion \in Versions
  /\ create' = With(create, NewVersion, Inf(mTransID[s]))
  /\ limit' = With(limit, NewVersion, FreeRow)
  /\ prev' = With(prev, NewVersion, op[s].v)
  /\ creator' = With(creator, NewVersion, mTransID[s])
  /\ limiter' = With(limiter, NewVersion, NullTID)
  /\ Rest(s)
  /\ UNCHANGED <<viewVars, deleted, commitOf>>

\* smcRecord::removeVersion
RemoveVersion(s, k, v) ==
  /\ Does(s, "none")
  /\ MayChange(s, k, v)
  /\ limit' = [limit EXCEPT ![v] = Inf(mTransID[s])]
  /\ limiter' = [limiter EXCEPT ![v] = mTransID[s]]
  /\ UNCHANGED <<viewVars, create, prev, deleted, op, creator, commitOf>>

\* What stands in the rows for a TID: its OID list.
Made(t) == {v \in Used \ deleted : create[v] = Inf(t)}
Limited(t) == {v \in Used : limit[v] = Inf(t)}

\* smxTrans::abort undoes the changes, the last one first: the new version
\* gets the delete bit, then the old one its limit back.
StartUndo(s) ==
  /\ Does(s, "none")
  /\ Made(mTransID[s]) \cup Limited(mTransID[s]) # {}
  /\ Goto(s, "undo")
  /\ UNCHANGED <<viewVars, rowVars, historyVars>>

Unlimit(v) ==
  /\ limit' = [limit EXCEPT ![v] = FreeRow]
  /\ limiter' = [limiter EXCEPT ![v] = NullTID]

\* The version that the last change not undone has made, a deletion aside.
LastMade(t, v) ==
  /\ v \in Made(t) /\ v \notin Limited(t)
  /\ \A w \in Made(t) : w <= v

\* Mutant of UndoNew: the delete bit goes to the old version.
UndoOld(s, v) ==
  /\ Does(s, "undo")
  /\ LastMade(mTransID[s], v)
  /\ deleted' = deleted \cup {prev[v]}
  /\ IF prev[v] = 0 THEN UNCHANGED op
     ELSE op' = [op EXCEPT ![s].step = "unlimit", ![s].v = prev[v]]
  /\ UNCHANGED <<viewVars, create, limit, prev, historyVars>>

UndoNew(s, v) ==
  /\ Does(s, "undo")
  /\ LastMade(mTransID[s], v)
  /\ deleted' = deleted \cup {v}
  /\ IF prev[v] = 0 THEN UNCHANGED op
     ELSE op' = [op EXCEPT ![s].step = "unlimit", ![s].v = prev[v]]
  /\ UNCHANGED <<viewVars, create, limit, prev, historyVars>>

UndoLimit(s) ==
  /\ Does(s, "unlimit")
  /\ Unlimit(op[s].v)
  /\ op' = [op EXCEPT ![s].step = "undo", ![s].v = 0]
  /\ UNCHANGED <<viewVars, create, prev, deleted, creator, commitOf>>

UndoRemove(s, v) ==
  /\ Does(s, "undo")
  /\ v \in Limited(mTransID[s])
  /\ \A w \in Made(mTransID[s]) : prev[w] # v
  /\ Unlimit(v)
  /\ UNCHANGED <<viewVars, create, prev, deleted, op, creator, commitOf>>

\* smxOIDList::processOIDListAtCommit: setSCN and setRowNextToSCN.
StampCreate(s, v) ==
  /\ pc[s] = "finish" /\ mStatus[s] = "COMMIT"
  /\ v \in Made(mTransID[s])
  /\ create' = [create EXCEPT ![v] = At(mCommitSCN[s])]
  /\ UNCHANGED <<viewVars, limit, prev, deleted, op, historyVars>>

StampLimit(s, v) ==
  /\ pc[s] = "finish" /\ mStatus[s] = "COMMIT"
  /\ v \in Limited(mTransID[s])
  /\ limit' = [limit EXCEPT ![v] = At(mCommitSCN[s])]
  /\ UNCHANGED <<viewVars, create, prev, deleted, op, historyVars>>

(***************************************************************************)
(* Readers: smnManager::checkSCN of version v for statement k.             *)
(***************************************************************************)

Foreign(s, stamp) == ~(stamp.kind \in {"inf", "lock"} /\ stamp.of = mTransID[s])

\* A version with the delete bit is not looked at any further.
ReadCreate(s, k, v) ==
  /\ Does(s, "none")
  /\ k \in Open(s) /\ v \in Used
  /\ Foreign(s, create[v])
  /\ op' = [op EXCEPT ![s] = [Resting EXCEPT
              !.step = IF v \in deleted THEN "seen" ELSE "limit",
              !.v = v, !.view = view[s][k], !.create = create[v]]]
  /\ UNCHANGED <<viewVars, rowVars, historyVars>>

ReadLimit(s) ==
  /\ Does(s, "limit")
  /\ Foreign(s, limit[op[s].v])
  /\ op' = [op EXCEPT ![s].step = "status", ![s].limit = limit[op[s].v]]
  /\ UNCHANGED <<viewVars, rowVars, historyVars>>

Field(o) == IF "create" \notin o.done THEN "create" ELSE "limit"
Resolved(o) == {"create", "limit"} \subseteq o.done
Asks(o) == o[Field(o)].kind = "inf"

\* SMX_GET_SCN_AND_TID: only an infinite SCN needs its writer's slot.
ReadStatus(s) ==
  /\ Does(s, "status")
  /\ ~Resolved(op[s])
  /\ op' = [op EXCEPT ![s] =
       IF Asks(op[s])
       THEN [op[s] EXCEPT !.step = "scn", !.status = mStatus[SlotOf(op[s][Field(op[s])].of)]]
       ELSE [op[s] EXCEPT !.done = @ \cup {Field(op[s])}]]
  /\ UNCHANGED <<viewVars, rowVars, historyVars>>

ReadCommitSCN(s) ==
  /\ Does(s, "scn")
  /\ op' = [op EXCEPT ![s].step = "tid", ![s].scn = mCommitSCN[SlotOf(op[s][Field(op[s])].of)]]
  /\ UNCHANGED <<viewVars, rowVars, historyVars>>

\* What getTransCommitSCN returns when the slot has the TID o of the row: the
\* commit SCN, or the row's SCN as it was read.
Answer(o) ==
  IF o.status = "COMMIT" /\ o.scn # Infinite THEN At(o.scn) ELSE o[Field(o)]

\* In status PRECOMMIT everything is read again.
Recheck(s) ==
  /\ Does(s, "tid")
  /\ mTransID[SlotOf(op[s][Field(op[s])].of)] = op[s][Field(op[s])].of
  /\ op[s].status = "PRECOMMIT"
  /\ Goto(s, "status")
  /\ UNCHANGED <<viewVars, rowVars, historyVars>>

\* Mutant of ReadTID: PRECOMMIT is taken for a transaction that runs.
ReadTIDOnce(s) ==
  LET o == op[s]
      f == Field(o)
      same == mTransID[SlotOf(o[f].of)] = o[f].of
  IN  /\ Does(s, "tid")
      /\ op' = [op EXCEPT ![s] = [o EXCEPT
                  ![f] = IF same THEN Answer(o) ELSE @,
                  !.step = "status", !.done = @ \cup {f}, !.late = @ \/ ~same]]
      /\ UNCHANGED <<viewVars, rowVars, historyVars>>

\* The slot has the TID of the row, or has gone on: then the copy stands. The
\* answer comes too late when the writer has ended since the row was read.
ReadTID(s) ==
  LET o == op[s]
      f == Field(o)
      same == mTransID[SlotOf(o[f].of)] = o[f].of
  IN  /\ Does(s, "tid")
      /\ ~(same /\ o.status = "PRECOMMIT")
      /\ op' = [op EXCEPT ![s] = [o EXCEPT
                  ![f] = IF same THEN Answer(o) ELSE @,
                  !.step = "status", !.done = @ \cup {f}, !.late = @ \/ ~same \/ o.status = "END"]]
      /\ UNCHANGED <<viewVars, rowVars, historyVars>>

\* Mutant of Visible: the next commit is in the view.
VisibleNext(o) ==
  /\ o.create.kind = "scn" /\ o.create.of <= o.view + 1
  /\ o.limit.kind = "scn" => o.limit.of > o.view

Visible(o) ==
  /\ o.create.kind = "scn" /\ o.create.of <= o.view
  /\ o.limit.kind = "scn" => o.limit.of > o.view

Verdict(s) ==
  /\ Does(s, "status")
  /\ Resolved(op[s])
  /\ op' = [op EXCEPT ![s].step = "seen", ![s].seen = Visible(op[s])]
  /\ UNCHANGED <<viewVars, rowVars, historyVars>>

EndCheck(s) == Does(s, "seen") /\ Rest(s) /\ UNCHANGED <<viewVars, rowVars, historyVars>>

(***************************************************************************)
(* The transactions of ViewSCN, between two operations on rows.            *)
(***************************************************************************)

Clean(s) == Made(mTransID[s]) \cup Limited(mTransID[s]) = {}

\* smxTrans::commit takes an SCN for what it has changed only.
Decide(s) ==
  \/ PreCommit(s) /\ op[s].step = "none" /\ ~Clean(s) /\ UNCHANGED op
  \/ CommitEmpty(s) /\ op[s].step = "none" /\ Clean(s) /\ UNCHANGED op
  \/ Abort(s) /\ op[s].step \in {"none", "undo"} /\ Clean(s) /\ Rest(s)

TakeCommitSCN(s) ==
  /\ TakeSCN(s)
  /\ commitOf' = [commitOf EXCEPT ![mTransID[s]] = lst + 2]
  /\ UNCHANGED <<rowVars, op, creator, limiter>>

\* Mutant of EndStamped: the transaction ends before its rows are stamped.
EndEarly(s) == EndStatus(s) /\ UNCHANGED <<rowVars, op, historyVars>>

\* processOIDList comes before end().
EndStamped(s) == EndStatus(s) /\ Clean(s) /\ UNCHANGED <<rowVars, op, historyVars>>

Between(s) ==
  /\ op[s].step = "none"
  /\ \/ Begin(s) \/ OpensView(s) \/ (\E k \in Stmts : EndStmt(s, k))
     \/ SetCommitSCN(s) \/ SetCommitStatus(s) \/ HoldView(s)
     \/ NextTID(s) \/ InitSlot(s)
  /\ UNCHANGED <<rowVars, op, historyVars>>

Write(s) ==
  \/ InsertVersion(s) \/ LimitVersion(s) \/ SetAllocated(s) \/ StartUndo(s) \/ UndoLimit(s)
  \/ \E k \in Stmts, v \in Versions : LockVersion(s, k, v) \/ RemoveVersion(s, k, v)
  \/ \E v \in Versions : UndoNew(s, v) \/ UndoRemove(s, v) \/ StampCreate(s, v) \/ StampLimit(s, v)

Read(s) ==
  \/ \E k \in Stmts, v \in Versions : ReadCreate(s, k, v)
  \/ ReadLimit(s) \/ ReadStatus(s) \/ ReadCommitSCN(s) \/ Recheck(s) \/ ReadTID(s)
  \/ Verdict(s) \/ EndCheck(s)

RowNext ==
  \E s \in Slots :
    \/ Write(s) \/ Read(s) \/ Between(s) \/ TakeCommitSCN(s) \/ EndStamped(s)
    \/ Decide(s) /\ UNCHANGED <<rowVars, historyVars>>

RowSpec == RowInit /\ [][RowNext]_visVars

(***************************************************************************)
(* Properties.                                                             *)
(***************************************************************************)

\* Every variable keeps its type.
RowTypeOK ==
  /\ TypeOK
  /\ Used \subseteq Versions
  /\ create \in [Used -> Stamp]
  /\ limit \in [Used -> Stamp]
  /\ prev \in [Used -> 0 .. VersionCnt]
  /\ deleted \subseteq Used
  /\ creator \in [Used -> TIDs \cup {NullTID}]
  /\ limiter \in [Used -> TIDs \cup {NullTID}]
  /\ commitOf \in [TIDs \cup {NullTID} -> 0 .. LastSCN \cup {Infinite}]
  /\ \A s \in Slots : op[s].v \in 0 .. VersionCnt /\ op[s].create \in Stamp /\ op[s].limit \in Stamp

\* Version v belongs to the snapshot of a view: its creator committed before the
\* view was taken, who replaced it did not.
InSnapshot(v, at) ==
  /\ v \notin deleted
  /\ commitOf[creator[v]] <= at
  /\ limiter[v] = NullTID \/ commitOf[limiter[v]] > at

Judged(s) == op[s].step = "seen"

\* The verdict on a version is its membership in the snapshot of the statement's view,
\* as long as no writer ended between the reading of the row and of its slot (checkSCN
\* and getTransCommitSCN against getCommitSCN: PRECOMMIT before the system SCN moves,
\* the slot's SCN before its status).
VerdictExact ==
  \A s \in Slots : Judged(s) /\ ~op[s].late => (op[s].seen <=> InSnapshot(op[s].v, op[s].view))

\* A statement never sees what was committed after its view was taken, or not at
\* all, nor a version that was rolled back, however the reading of row and slot is
\* interleaved with commit, end and reuse of the slot.
NoFutureRead ==
  \A s \in Slots : Judged(s) /\ op[s].seen => commitOf[creator[op[s].v]] <= op[s].view

\* An infinite SCN in a row is that of a transaction still in its slot, so that a reader
\* can ask (processOIDList before end, abort's undo before end); only a version with
\* the delete bit keeps the TID of a transaction that is gone.
InfiniteHasOwner ==
  \A v \in Used :
    /\ create[v].kind = "inf" /\ v \notin deleted => mTransID[SlotOf(create[v].of)] = create[v].of
    /\ limit[v].kind \in {"inf", "lock"} => mTransID[SlotOf(limit[v].of)] = limit[v].of

\* A version that somebody has updated or deleted is not updated or deleted again unless
\* the first one rolled back (recordLockValidation: no lost update).
FirstUpdaterWins ==
  [][\A v \in Used : limiter[v] # NullTID /\ limiter'[v] # limiter[v] =>
       limiter'[v] = NullTID /\ commitOf[limiter[v]] = Infinite]_visVars

\* A reader gets for an infinite SCN the exact value (smxTrans.cpp:3729-3733): the verdict
\* is always the membership in the snapshot.
SnapshotRead ==
  \A s \in Slots : Judged(s) => (op[s].seen <=> InSnapshot(op[s].v, op[s].view))
=============================================================================
