------------------------------ MODULE ViewSCN ------------------------------
(***************************************************************************)
(* System change numbers of the storage manager: the view SCN a statement  *)
(* takes (smxTrans::allocViewSCN), the commit SCN a transaction takes      *)
(* (smmDatabase::getCommitSCN) and the minimum view SCN that the agers     *)
(* compute by walking over all transaction slots, without any mutex        *)
(* (smxTransMgr::getMinMemViewSCNofAll).                                   *)
(*                                                                         *)
(* System and commit SCNs are even (the code adds 8), the view SCN of a    *)
(* moment is the system SCN plus 1 (the code sets a bit below the 8): it   *)
(* is above all commits so far and below the next one.                     *)
(***************************************************************************)
EXTENDS Integers, FiniteSets

CONSTANTS
  mTransCnt,          \* number of transaction slots (smxTransMgr::mTransCnt)
  Stmts,              \* statements that a transaction may have open at once
  Scanners,           \* threads that compute the minimum view SCN
  FetchAcrossCommit,  \* may a transaction commit with open statements?
  LastSCN,            \* bound on commits: the last SCN given out
  LastTrans           \* bound on the transactions a slot begins

ASSUME ViewSCNAssumption ==
  /\ mTransCnt \in Nat \ {0}
  /\ FetchAcrossCommit \in BOOLEAN
  /\ LastSCN \in Nat /\ LastTrans \in Nat

VARIABLES
  lst,            \* mLstSystemSCN, the last SCN given to a commit
  mStatus,        \* mStatus[s] of the smxTrans in slot s
  mCommitSCN,     \* its commit SCN
  mMinMemViewSCN, \* the least view SCN of its open statements
  mLSLockFlag,    \* TRUE while it is taking or dropping a view
  mTransID,       \* its TID
  view,           \* view[s][k]: view SCN of its statement k, 0 if not open
  legacy,         \* open statements that belong to a committed transaction
  pc,             \* what the thread of the slot is doing
  scn,            \* the SCN it has read or taken, a local variable
  scan,           \* the walk of each scanner over the slots
  safe            \* the minimum each scanner has got, 0 until the walk is over

transVars == <<mStatus, mCommitSCN, mMinMemViewSCN, mLSLockFlag, mTransID>>
stmtVars == <<view, legacy>>
scanVars == <<scan, safe>>
viewVars == <<lst, transVars, stmtVars, pc, scn, scanVars>>

Slots == 0 .. mTransCnt - 1
NullTID == -1

\* The SCN that says "none": above every other.
Infinite == LastSCN + 2

\* Mutant of ViewOf: the view of the moment is the next commit's SCN.
ViewOfNext(s) == s + 2

ViewOf(s) == s + 1

Finite == 0 .. LastSCN + 1

Idle == [at |-> 0, step |-> "idle", min |-> 0, cur |-> 0, tid |-> NullTID]

Open(s) == {k \in Stmts : view[s][k] # 0}

Init ==
  /\ lst = 0
  /\ mStatus = [s \in Slots |-> "END"]
  /\ mCommitSCN = [s \in Slots |-> Infinite]
  /\ mMinMemViewSCN = [s \in Slots |-> Infinite]
  /\ mLSLockFlag = [s \in Slots |-> FALSE]
  /\ mTransID = [s \in Slots |-> s]
  /\ view = [s \in Slots |-> [k \in Stmts |-> 0]]
  /\ legacy = [s \in Slots |-> {}]
  /\ pc = [s \in Slots |-> "end"]
  /\ scn = [s \in Slots |-> 0]
  /\ scan = [a \in Scanners |-> Idle]
  /\ safe = [a \in Scanners |-> 0]

Goes(s, from, to) == pc[s] = from /\ pc' = [pc EXCEPT ![s] = to]

(***************************************************************************)
(* A transaction and its statements.                                       *)
(***************************************************************************)

\* smxTrans::begin: a slot that still has legacy statements keeps the status
\* of its committed transaction until now.
Begin(s) ==
  /\ Goes(s, "end", "run")
  /\ mTransID[s] < LastTrans * mTransCnt
  /\ mStatus' = [mStatus EXCEPT ![s] = "BEGIN"]
  /\ UNCHANGED <<lst, mCommitSCN, mMinMemViewSCN, mLSLockFlag, mTransID, stmtVars, scn, scanVars>>

\* smxTrans::allocViewSCN: the flag, then the system's view SCN, then the slot.
LockView(s) ==
  /\ Goes(s, "run", "view")
  /\ Open(s) # Stmts
  /\ mLSLockFlag' = [mLSLockFlag EXCEPT ![s] = TRUE]
  /\ UNCHANGED <<lst, mStatus, mCommitSCN, mMinMemViewSCN, mTransID, stmtVars, scn, scanVars>>

GetView(s) ==
  /\ Goes(s, "view", "set")
  /\ scn' = [scn EXCEPT ![s] = ViewOf(lst)]
  /\ UNCHANGED <<lst, transVars, stmtVars, scanVars>>

\* Mutant of MinWith: the last view opened becomes the slot's minimum.
MinLast(s, v) == v

MinWith(s, v) == IF mMinMemViewSCN[s] = Infinite THEN v ELSE mMinMemViewSCN[s]

SetView(s, k) ==
  /\ Goes(s, "set", "run")
  /\ k \notin Open(s)
  /\ view' = [view EXCEPT ![s][k] = scn[s]]
  /\ mMinMemViewSCN' = [mMinMemViewSCN EXCEPT ![s] = MinWith(s, scn[s])]
  /\ mLSLockFlag' = [mLSLockFlag EXCEPT ![s] = FALSE]
  /\ scn' = [scn EXCEPT ![s] = 0]
  /\ UNCHANGED <<lst, mStatus, mCommitSCN, mTransID, legacy, scanVars>>

\* The least view of the other statements, legacy ones included.
LeastView(s, K, m) ==
  IF K = {} THEN m = Infinite
  ELSE m \in {view[s][k] : k \in K} /\ \A k \in K : m <= view[s][k]

\* smiStatement::end: the minimum is not raised while a legacy transaction is open.
EndStmt(s, k) ==
  /\ pc[s] = "run"
  /\ k \in Open(s)
  /\ view' = [view EXCEPT ![s][k] = 0]
  /\ legacy' = [legacy EXCEPT ![s] = @ \ {k}]
  /\ IF legacy[s] \ {k} = {}
     THEN \E m \in Finite \cup {Infinite} :
            /\ LeastView(s, Open(s) \ {k}, m)
            /\ mMinMemViewSCN' = [mMinMemViewSCN EXCEPT ![s] = m]
     ELSE UNCHANGED mMinMemViewSCN
  /\ UNCHANGED <<lst, mStatus, mCommitSCN, mLSLockFlag, mTransID, pc, scn, scanVars>>

(***************************************************************************)
(* The end of a transaction.                                               *)
(***************************************************************************)

MayCommit(s) == Open(s) \subseteq legacy[s] \/ FetchAcrossCommit

\* smmDatabase::getCommitSCN: the status that makes readers wait, the next SCN
\* by compare-and-swap, then the slot's SCN before its status.
PreCommit(s) ==
  /\ Goes(s, "run", "precommit")
  /\ MayCommit(s)
  /\ mStatus' = [mStatus EXCEPT ![s] = "PRECOMMIT"]
  /\ UNCHANGED <<lst, mCommitSCN, mMinMemViewSCN, mLSLockFlag, mTransID, stmtVars, scn, scanVars>>

TakeSCN(s) ==
  /\ Goes(s, "precommit", "taken")
  /\ lst + 2 <= LastSCN
  /\ lst' = lst + 2
  /\ scn' = [scn EXCEPT ![s] = lst + 2]
  /\ UNCHANGED <<transVars, stmtVars, scanVars>>

\* smxTrans::setTransCommitSCN
SetCommitSCN(s) ==
  /\ Goes(s, "taken", "scnset")
  /\ mCommitSCN' = [mCommitSCN EXCEPT ![s] = scn[s]]
  /\ UNCHANGED <<lst, mStatus, mMinMemViewSCN, mLSLockFlag, mTransID, stmtVars, scn, scanVars>>

SetCommitStatus(s) ==
  /\ Goes(s, "scnset", "committed")
  /\ mStatus' = [mStatus EXCEPT ![s] = "COMMIT"]
  /\ UNCHANGED <<lst, mCommitSCN, mMinMemViewSCN, mLSLockFlag, mTransID, stmtVars, scn, scanVars>>

\* smxTrans::addOIDList2AgingList: a committing transaction without statements
\* takes its commit SCN for a view, to be counted by the agers.
HoldView(s) ==
  /\ Goes(s, "committed", "finish")
  /\ mMinMemViewSCN' = [mMinMemViewSCN EXCEPT ![s] = MinWith(s, scn[s])]
  /\ scn' = [scn EXCEPT ![s] = 0]
  /\ UNCHANGED <<lst, mStatus, mCommitSCN, mLSLockFlag, mTransID, stmtVars, scanVars>>

\* A transaction that has changed nothing takes no SCN.
CommitEmpty(s) ==
  /\ Goes(s, "run", "finish")
  /\ MayCommit(s)
  /\ mStatus' = [mStatus EXCEPT ![s] = "COMMIT"]
  /\ UNCHANGED <<lst, mCommitSCN, mMinMemViewSCN, mLSLockFlag, mTransID, stmtVars, scn, scanVars>>

\* An abort takes the last SCN as its own, if it has anything to undo, and
\* increments nothing.
Abort(s) ==
  /\ Goes(s, "run", "finish")
  /\ MayCommit(s)
  /\ \E c \in {lst, mCommitSCN[s]} : mCommitSCN' = [mCommitSCN EXCEPT ![s] = c]
  /\ mStatus' = [mStatus EXCEPT ![s] = "ABORT"]
  /\ UNCHANGED <<lst, mMinMemViewSCN, mLSLockFlag, mTransID, stmtVars, scn, scanVars>>

\* Mutant of EndStatus: a slot with open legacy statements ends too.
EndStatusAlways(s) ==
  /\ Goes(s, "finish", "ended")
  /\ legacy' = [legacy EXCEPT ![s] = Open(s)]
  /\ mStatus' = [mStatus EXCEPT ![s] = "END"]
  /\ UNCHANGED <<lst, mCommitSCN, mMinMemViewSCN, mLSLockFlag, mTransID, view, scn, scanVars>>

\* smxTrans::end: status, barrier, TID, barrier, init.
EndStatus(s) ==
  /\ Goes(s, "finish", "ended")
  /\ legacy' = [legacy EXCEPT ![s] = Open(s)]
  /\ mStatus' = [mStatus EXCEPT ![s] = IF Open(s) = {} THEN "END" ELSE @]
  /\ UNCHANGED <<lst, mCommitSCN, mMinMemViewSCN, mLSLockFlag, mTransID, view, scn, scanVars>>

NextTID(s) ==
  /\ Goes(s, "ended", "init")
  /\ mTransID' = [mTransID EXCEPT ![s] = @ + mTransCnt]
  /\ UNCHANGED <<lst, mStatus, mCommitSCN, mMinMemViewSCN, mLSLockFlag, stmtVars, scn, scanVars>>

InitSlot(s) ==
  /\ Goes(s, "init", "end")
  /\ mMinMemViewSCN' = [mMinMemViewSCN EXCEPT ![s] = IF legacy[s] = {} THEN Infinite ELSE @]
  /\ mCommitSCN' = [mCommitSCN EXCEPT ![s] = Infinite]
  /\ UNCHANGED <<lst, mStatus, mLSLockFlag, mTransID, stmtVars, scn, scanVars>>

(***************************************************************************)
(* getMinMemViewSCNofAll: the view of the moment first, then slot by slot  *)
(* the flag, the slot's minimum and its status.                            *)
(***************************************************************************)

StartScan(a) ==
  /\ scan[a].step = "idle"
  /\ scan' = [scan EXCEPT ![a] =
                [at |-> 0, step |-> "flag", min |-> ViewOf(lst), cur |-> 0, tid |-> NullTID]]
  /\ safe' = [safe EXCEPT ![a] = 0]
  /\ UNCHANGED <<lst, transVars, stmtVars, pc, scn>>

\* Mutant of PassFlag: the flag is not waited for.
PassFlagBlind(a) ==
  /\ scan[a].step = "flag"
  /\ scan' = [scan EXCEPT ![a].step = "min"]
  /\ UNCHANGED <<lst, transVars, stmtVars, pc, scn, safe>>

\* The scanner spins while the slot is taking a view.
PassFlag(a) ==
  /\ scan[a].step = "flag"
  /\ ~mLSLockFlag[scan[a].at]
  /\ scan' = [scan EXCEPT ![a].step = "min"]
  /\ UNCHANGED <<lst, transVars, stmtVars, pc, scn, safe>>

ReadMin(a) ==
  /\ scan[a].step = "min"
  /\ scan' = [scan EXCEPT ![a].step = "status", ![a].cur = mMinMemViewSCN[scan[a].at]]
  /\ UNCHANGED <<lst, transVars, stmtVars, pc, scn, safe>>

\* The slot counts unless it is free.
TakesMin(a) ==
  /\ mStatus[scan[a].at] # "END"
  /\ scan[a].cur <= scan[a].min

Taken(a) ==
  [at |-> scan[a].at + 1,
   step |-> "flag",
   min |-> IF TakesMin(a) THEN scan[a].cur ELSE scan[a].min,
   cur |-> 0,
   tid |-> IF TakesMin(a) THEN mTransID[scan[a].at] ELSE scan[a].tid]

TakeMin(a) ==
  /\ scan[a].step = "status"
  /\ scan[a].at + 1 < mTransCnt
  /\ scan' = [scan EXCEPT ![a] = Taken(a)]
  /\ UNCHANGED <<lst, transVars, stmtVars, pc, scn, safe>>

\* The last slot: the minimum and the TID that has it are returned.
EndScan(a) ==
  /\ scan[a].step = "status"
  /\ scan[a].at + 1 = mTransCnt
  /\ scan' = [scan EXCEPT ![a] = Idle]
  /\ safe' = [safe EXCEPT ![a] = Taken(a).min]
  /\ UNCHANGED <<lst, transVars, stmtVars, pc, scn>>

(***************************************************************************)
(* Specification.                                                          *)
(***************************************************************************)

Committing(s) ==
  \/ PreCommit(s) \/ TakeSCN(s) \/ SetCommitSCN(s) \/ SetCommitStatus(s)
  \/ HoldView(s) \/ CommitEmpty(s) \/ Abort(s)
Ending(s) == EndStatus(s) \/ NextTID(s) \/ InitSlot(s)
OpensView(s) == LockView(s) \/ GetView(s) \/ (\E k \in Stmts : SetView(s, k))
Trans(s) ==
  \/ Begin(s) \/ OpensView(s) \/ (\E k \in Stmts : EndStmt(s, k))
  \/ Committing(s) \/ Ending(s)
Scan(a) == StartScan(a) \/ PassFlag(a) \/ ReadMin(a) \/ TakeMin(a) \/ EndScan(a)

Next == (\E s \in Slots : Trans(s)) \/ (\E a \in Scanners : Scan(a))

Spec == Init /\ [][Next]_viewVars

(***************************************************************************)
(* Properties.                                                             *)
(***************************************************************************)

Walk == [at : Slots, step : {"idle", "flag", "min", "status"}, min : Finite,
         cur : Finite \cup {Infinite}, tid : Nat \cup {NullTID}]

\* Every variable keeps its type.
TypeOK ==
  /\ lst \in 0 .. LastSCN
  /\ mStatus \in [Slots -> {"END", "BEGIN", "PRECOMMIT", "COMMIT", "ABORT"}]
  /\ mCommitSCN \in [Slots -> 0 .. LastSCN \cup {Infinite}]
  /\ mMinMemViewSCN \in [Slots -> Finite \cup {Infinite}]
  /\ mLSLockFlag \in [Slots -> BOOLEAN]
  /\ mTransID \in [Slots -> Nat]
  /\ view \in [Slots -> [Stmts -> Finite]]
  /\ legacy \in [Slots -> SUBSET Stmts]
  /\ pc \in [Slots -> {"end", "run", "view", "set", "precommit", "taken", "scnset", "committed",
                       "finish", "ended", "init"}]
  /\ scn \in [Slots -> Finite]
  /\ scan \in [Scanners -> Walk]
  /\ safe \in [Scanners -> Finite]

\* m is at most every view of slot s, open or about to be.
Covers(m, s) ==
  /\ \A k \in Open(s) : m <= view[s][k]
  /\ pc[s] = "set" => m <= scn[s]

\* The minimum an ager works with never exceeds the view of a statement that
\* is open or about to be (getMinMemViewSCNofAll against allocViewSCN, BUG-17600,
\* BUG-22232): no version that a statement may still read is below it.
MinCoversViews == \A a \in Scanners, s \in Slots : Covers(safe[a], s)

\* A slot's minimum is the least view of its statements whenever nobody is changing
\* it and no legacy statement is left, and never above one of them; a statement's
\* view is not older than the minimum of its slot, as trySetupMinMemViewSCN asserts
\* (allocViewSCN, smiStatement::end, addOIDList2AgingList, init).
SlotMinExact ==
  \A s \in Slots :
    /\ pc[s] \in {"run", "end"} /\ legacy[s] = {} => LeastView(s, Open(s), mMinMemViewSCN[s])
    /\ \A k \in Open(s) : mMinMemViewSCN[s] <= view[s][k]
    /\ pc[s] = "set" => mMinMemViewSCN[s] \in 0 .. scn[s] \cup {Infinite}

\* A view belongs to a slot that the agers count: no scan may skip it as ended,
\* not even between two transactions of a slot with an open legacy statement
\* (smxTrans::end and begin, PROJ-1381).
ViewsCounted ==
  \A s \in Slots : Open(s) # {} => mStatus[s] # "END" /\ mMinMemViewSCN[s] # Infinite
=============================================================================
