-------------------------- MODULE ViewSCN_proofs --------------------------
(***************************************************************************)
(* The minimum view SCN never passes the view of a statement, for any      *)
(* number of slots, statements and scanners and without bound on commits.  *)
(*                                                                         *)
(* The argument.  A scanner takes the view of the moment first, so that    *)
(* every view taken later is at least its minimum.  What was taken before  *)
(* is either registered in mMinMemViewSCN or belongs to a slot whose flag  *)
(* is still set, at which the scanner waits.  VInv says this for a scanner *)
(* at any point of its walk.                                               *)
(***************************************************************************)
EXTENDS ViewSCN, TLAPS

SlotInv(s) ==
  /\ pc[s] \in {"view", "set"} => mLSLockFlag[s]
  /\ mStatus[s] = "END" => pc[s] \in {"end", "ended", "init"} /\ Open(s) = {}
  /\ \A k \in Open(s) : mMinMemViewSCN[s] <= view[s][k] /\ view[s][k] <= ViewOf(lst)
  /\ mMinMemViewSCN[s] # Infinite => mMinMemViewSCN[s] <= ViewOf(lst)
  /\ pc[s] = "set" =>
       /\ scn[s] <= ViewOf(lst)
       /\ mMinMemViewSCN[s] # Infinite => mMinMemViewSCN[s] <= scn[s]
  /\ pc[s] \in {"taken", "scnset", "committed"} => scn[s] <= lst
  /\ pc[s] \in {"ended", "init"} => Open(s) = legacy[s]

\* What a scanner knows in the middle of its walk: the slots it has passed are
\* covered, and of the one it looks at, the view that is being taken (past the
\* flag) and the open ones (past the minimum).
WalkInv(a) ==
  LET at == scan[a].at
      min == scan[a].min
  IN  /\ min <= ViewOf(lst)
      /\ \A s \in Slots : s < at => Covers(min, s)
      /\ scan[a].step \in {"min", "status"} /\ pc[at] = "set" => min <= scn[at]
      /\ scan[a].step = "status" =>
           \A k \in Open(at) : scan[a].cur <= view[at][k] \/ min <= view[at][k]

ScanInv(a) ==
  /\ safe[a] <= ViewOf(lst)
  /\ \A s \in Slots : Covers(safe[a], s)
  /\ scan[a].step # "idle" => WalkInv(a)

VInv ==
  /\ TypeOK
  /\ \A s \in Slots : SlotInv(s)
  /\ \A a \in Scanners : ScanInv(a)

\* What may happen to views and SCNs at any time: the system SCN grows, a view that
\* appears was being taken, and one that is being taken is of now.
ViewsGoOn ==
  /\ lst' \in Nat /\ lst <= lst'
  /\ \A s \in Slots :
       /\ \A k \in Stmts : view'[s][k] \in {0, view[s][k]} \/ (pc[s] = "set" /\ view'[s][k] = scn[s])
       /\ pc'[s] = "set" => (pc[s] = "set" /\ scn'[s] = scn[s]) \/ scn'[s] = ViewOf(lst)

\* What the thread of a slot may do without disturbing a scanner.
ViewStep ==
  /\ lst' \in Nat /\ lst <= lst'
  /\ scan' = scan /\ safe' = safe
  /\ \A s \in Slots :
       /\ \A k \in Stmts : view'[s][k] \in {0, view[s][k]} \/ (pc[s] = "set" /\ view'[s][k] = scn[s])
       /\ pc'[s] = "set" => (pc[s] = "set" /\ scn'[s] = scn[s]) \/ scn'[s] = ViewOf(lst)

\* An SCN below every view, and below those that can still be taken, stays so.
LEMMA CoverKept ==
  ASSUME TypeOK, ViewsGoOn, NEW m \in Nat, NEW s \in Slots, m <= ViewOf(lst), Covers(m, s)
  PROVE  m <= ViewOf(lst)' /\ Covers(m, s)'
<1>0. lst \in Nat /\ lst' \in Nat /\ lst <= lst'
  BY ViewSCNAssumption DEF TypeOK, ViewsGoOn
<1>1. pc[s] = "set" => m <= scn[s]
  BY DEF Covers
<1>2. pc'[s] = "set" => m <= scn'[s]
  BY <1>1 DEF ViewsGoOn
<1>3. ASSUME NEW k \in Open(s)' PROVE m <= view'[s][k]
  BY <1>1, <1>3 DEF Covers, Open, ViewsGoOn
<1>4. m <= lst + 1 => m <= lst' + 1
  <2>1. \A i, j, n \in Nat : i <= j /\ n <= i + 1 => n <= j + 1
    OBVIOUS
  <2> QED BY <2>1, <1>0
<1> QED BY <1>2, <1>3, <1>4 DEF Covers, ViewOf

\* A step of a slot leaves every scanner's knowledge true: views taken later are
\* at least the view the scanner began with (getMinMemViewSCNofAll 534).
LEMMA ScanKept ==
  ASSUME VInv, ViewStep, NEW a \in Scanners
  PROVE  ScanInv(a)'
<1> USE ViewSCNAssumption
<1>1. TypeOK /\ ScanInv(a)
  BY DEF VInv
<1>2. lst \in Nat /\ safe[a] \in Nat /\ scan[a].min \in Nat /\ scan[a].at \in Slots
  BY <1>1 DEF TypeOK, Walk, Finite
<1>3. ASSUME NEW m \in Nat, NEW s \in Slots, m <= ViewOf(lst), pc[s] = "set" => m <= scn[s]
      PROVE  pc'[s] = "set" => m <= scn'[s]
  BY <1>3 DEF ViewStep
<1>4. ASSUME NEW m \in Nat, NEW s \in Slots, m <= ViewOf(lst), Covers(m, s)
      PROVE  Covers(m, s)'
  <2>1. ViewsGoOn
    BY DEF ViewStep, ViewsGoOn
  <2> QED BY <2>1, <1>1, <1>4, CoverKept
<1>0. lst' \in Nat /\ lst <= lst'
  BY DEF ViewStep
<1>5. ViewOf(lst) <= ViewOf(lst)'
  <2>1. \A m, n \in Nat : m <= n => m + 1 <= n + 1
    OBVIOUS
  <2>2. lst + 1 <= lst' + 1
    BY <2>1, <1>0, <1>2
  <2> QED BY <2>2 DEF ViewOf
<1>6. safe'[a] = safe[a] /\ scan'[a] = scan[a]
  BY DEF ViewStep
<1>7. safe[a] <= ViewOf(lst)' /\ \A s \in Slots : Covers(safe[a], s)'
  <2>1. safe[a] <= ViewOf(lst) /\ \A s \in Slots : Covers(safe[a], s)
    BY <1>1 DEF ScanInv
  <2>2. \A s \in Slots : Covers(safe[a], s)'
    BY <2>1, <1>4, <1>2, <1>6
  <2> QED BY <2>1, <2>2, <1>5, <1>2 DEF ViewOf, ViewStep
<1>8. ASSUME scan[a].step # "idle" PROVE WalkInv(a)'
  <2> DEFINE at == scan[a].at
             min == scan[a].min
  <2>1. WalkInv(a)
    BY <1>1, <1>8 DEF ScanInv
  <2>2. min <= ViewOf(lst) /\ min <= ViewOf(lst)'
    BY <2>1, <1>2, <1>5 DEF WalkInv, ViewOf, ViewStep
  <2>3. \A s \in Slots : s < at => Covers(min, s)'
    BY <2>1, <2>2, <1>2, <1>4, <1>6 DEF WalkInv
  <2>4. ASSUME scan[a].step \in {"min", "status"} PROVE pc'[at] = "set" => min <= scn'[at]
    <3>1. pc[at] = "set" => min <= scn[at]
      BY <2>1, <2>4 DEF WalkInv
    <3> QED BY <3>1, <2>2, <1>2, <1>3
  <2>5. ASSUME scan[a].step = "status", NEW k \in Stmts, view'[at][k] # 0
        PROVE  scan[a].cur <= view'[at][k] \/ min <= view'[at][k]
    <3>1. view'[at][k] = view[at][k] \/ (pc[at] = "set" /\ view'[at][k] = scn[at])
      BY <2>5, <1>2 DEF ViewStep, Open
    <3>2. k \in Open(at) => scan[a].cur <= view[at][k] \/ min <= view[at][k]
      BY <2>1, <2>5 DEF WalkInv
    <3>3. pc[at] = "set" => min <= scn[at]
      BY <2>1, <2>5 DEF WalkInv
    <3> QED BY <3>1, <3>2, <3>3, <2>5 DEF Open
  <2>6. scan[a].step = "status" =>
          \A k \in Open(at)' : scan[a].cur <= view'[at][k] \/ min <= view'[at][k]
    BY <2>5, <1>6 DEF Open
  <2> QED BY <2>2, <2>3, <2>4, <2>6, <1>6 DEF WalkInv
<1> QED BY <1>6, <1>7, <1>8 DEF ScanInv

\* What a step leaves alone of slot r, and a system SCN that only grows, keep its invariant.
LEMMA OthersKept ==
  ASSUME TypeOK, lst' \in Nat, lst <= lst', NEW r \in Slots, SlotInv(r),
         pc'[r] = pc[r], scn'[r] = scn[r], view'[r] = view[r], legacy'[r] = legacy[r],
         mStatus'[r] = mStatus[r], mMinMemViewSCN'[r] = mMinMemViewSCN[r],
         mLSLockFlag'[r] = mLSLockFlag[r]
  PROVE  SlotInv(r)'
<1>1. lst \in Nat /\ scn[r] \in Nat /\ mMinMemViewSCN[r] \in Nat /\ \A k \in Stmts : view[r][k] \in Nat
  BY ViewSCNAssumption DEF TypeOK, Finite, Infinite
<1>2. Open(r)' = Open(r)
  BY DEF Open
<1> QED BY <1>1, <1>2, ViewSCNAssumption DEF SlotInv, ViewOf, Infinite, Open

Good(s) == TypeOK' /\ SlotInv(s)' /\ ViewStep

\* Each step of a slot's thread keeps the slot's invariant and is harmless to scanners.
LEMMA SlotSteps ==
  ASSUME VInv, NEW s \in Slots, Trans(s)
  PROVE  Good(s)
<1> USE ViewSCNAssumption
<1>1. TypeOK /\ SlotInv(s)
  BY DEF VInv
<1>2. lst \in Nat /\ lst <= LastSCN /\ Infinite \in Nat /\ LastSCN + 1 < Infinite
  BY <1>1 DEF TypeOK, Infinite
<1>3. CASE Begin(s)
  <2>1. TypeOK'
    BY <1>3, <1>1, <1>2 DEF Begin, Goes, TypeOK, Finite, ViewOf, MinWith, stmtVars, scanVars, transVars
  <2>2. SlotInv(s)'
    BY <1>3, <1>1, <1>2 DEF Begin, Goes, TypeOK, SlotInv, Finite, Open, ViewOf, MinWith, stmtVars, scanVars, transVars
  <2>3. ViewStep
    BY <1>3, <1>1, <1>2 DEF Begin, Goes, TypeOK, ViewStep, Finite, ViewOf, stmtVars, scanVars, transVars
  <2> QED BY <2>1, <2>2, <2>3 DEF Good
<1>4. CASE LockView(s)
  <2>1. TypeOK'
    BY <1>4, <1>1, <1>2 DEF LockView, Goes, TypeOK, Finite, ViewOf, MinWith, stmtVars, scanVars, transVars
  <2>2. SlotInv(s)'
    BY <1>4, <1>1, <1>2 DEF LockView, Goes, TypeOK, SlotInv, Finite, Open, ViewOf, MinWith, stmtVars, scanVars, transVars
  <2>3. ViewStep
    BY <1>4, <1>1, <1>2 DEF LockView, Goes, TypeOK, ViewStep, Finite, ViewOf, stmtVars, scanVars, transVars
  <2> QED BY <2>1, <2>2, <2>3 DEF Good
<1>5. CASE GetView(s)
  <2>1. TypeOK'
    BY <1>5, <1>1, <1>2 DEF GetView, Goes, TypeOK, Finite, ViewOf, MinWith, stmtVars, scanVars, transVars
  <2>2. SlotInv(s)'
    BY <1>5, <1>1, <1>2 DEF GetView, Goes, TypeOK, SlotInv, Finite, Open, ViewOf, MinWith, stmtVars, scanVars, transVars
  <2>3. ViewStep
    BY <1>5, <1>1, <1>2 DEF GetView, Goes, TypeOK, ViewStep, Finite, ViewOf, stmtVars, scanVars, transVars
  <2> QED BY <2>1, <2>2, <2>3 DEF Good
<1>6. CASE PreCommit(s)
  <2>1. TypeOK'
    BY <1>6, <1>1, <1>2 DEF PreCommit, Goes, TypeOK, Finite, ViewOf, MinWith, stmtVars, scanVars, transVars
  <2>2. SlotInv(s)'
    BY <1>6, <1>1, <1>2 DEF PreCommit, Goes, TypeOK, SlotInv, Finite, Open, ViewOf, MinWith, stmtVars, scanVars, transVars
  <2>3. ViewStep
    BY <1>6, <1>1, <1>2 DEF PreCommit, Goes, TypeOK, ViewStep, Finite, ViewOf, stmtVars, scanVars, transVars
  <2> QED BY <2>1, <2>2, <2>3 DEF Good
<1>7. CASE TakeSCN(s)
  <2>1. TypeOK'
    BY <1>7, <1>1, <1>2 DEF TakeSCN, Goes, TypeOK, Finite, ViewOf, MinWith, stmtVars, scanVars, transVars
  <2>2. SlotInv(s)'
    BY <1>7, <1>1, <1>2 DEF TakeSCN, Goes, TypeOK, SlotInv, Finite, Open, ViewOf, MinWith, stmtVars, scanVars, transVars
  <2>3. ViewStep
    BY <1>7, <1>1, <1>2 DEF TakeSCN, Goes, TypeOK, ViewStep, Finite, ViewOf, stmtVars, scanVars, transVars
  <2> QED BY <2>1, <2>2, <2>3 DEF Good
<1>8. CASE SetCommitSCN(s)
  <2>1. TypeOK'
    BY <1>8, <1>1, <1>2 DEF SetCommitSCN, SlotInv, Goes, TypeOK, Finite, ViewOf, MinWith, stmtVars, scanVars, transVars
  <2>2. SlotInv(s)'
    BY <1>8, <1>1, <1>2 DEF SetCommitSCN, Goes, TypeOK, SlotInv, Finite, Open, ViewOf, MinWith, stmtVars, scanVars, transVars
  <2>3. ViewStep
    BY <1>8, <1>1, <1>2 DEF SetCommitSCN, Goes, TypeOK, ViewStep, Finite, ViewOf, stmtVars, scanVars, transVars
  <2> QED BY <2>1, <2>2, <2>3 DEF Good
<1>9. CASE SetCommitStatus(s)
  <2>1. TypeOK'
    BY <1>9, <1>1, <1>2 DEF SetCommitStatus, Goes, TypeOK, Finite, ViewOf, MinWith, stmtVars, scanVars, transVars
  <2>2. SlotInv(s)'
    BY <1>9, <1>1, <1>2 DEF SetCommitStatus, Goes, TypeOK, SlotInv, Finite, Open, ViewOf, MinWith, stmtVars, scanVars, transVars
  <2>3. ViewStep
    BY <1>9, <1>1, <1>2 DEF SetCommitStatus, Goes, TypeOK, ViewStep, Finite, ViewOf, stmtVars, scanVars, transVars
  <2> QED BY <2>1, <2>2, <2>3 DEF Good
<1>10. CASE HoldView(s)
  <2>1. TypeOK'
    BY <1>10, <1>1, <1>2 DEF HoldView, Goes, TypeOK, Finite, ViewOf, MinWith, stmtVars, scanVars, transVars
  <2>2. SlotInv(s)'
    BY <1>10, <1>1, <1>2 DEF HoldView, Goes, TypeOK, SlotInv, Finite, Open, ViewOf, MinWith, stmtVars, scanVars, transVars
  <2>3. ViewStep
    BY <1>10, <1>1, <1>2 DEF HoldView, Goes, TypeOK, ViewStep, Finite, ViewOf, stmtVars, scanVars, transVars
  <2> QED BY <2>1, <2>2, <2>3 DEF Good
<1>11. CASE CommitEmpty(s)
  <2>1. TypeOK'
    BY <1>11, <1>1, <1>2 DEF CommitEmpty, Goes, TypeOK, Finite, ViewOf, MinWith, stmtVars, scanVars, transVars
  <2>2. SlotInv(s)'
    BY <1>11, <1>1, <1>2 DEF CommitEmpty, Goes, TypeOK, SlotInv, Finite, Open, ViewOf, MinWith, stmtVars, scanVars, transVars
  <2>3. ViewStep
    BY <1>11, <1>1, <1>2 DEF CommitEmpty, Goes, TypeOK, ViewStep, Finite, ViewOf, stmtVars, scanVars, transVars
  <2> QED BY <2>1, <2>2, <2>3 DEF Good
<1>12. CASE Abort(s)
  <2>1. TypeOK'
    BY <1>12, <1>1, <1>2 DEF Abort, Goes, TypeOK, Finite, ViewOf, MinWith, stmtVars, scanVars, transVars
  <2>2. SlotInv(s)'
    BY <1>12, <1>1, <1>2 DEF Abort, Goes, TypeOK, SlotInv, Finite, Open, ViewOf, MinWith, stmtVars, scanVars, transVars
  <2>3. ViewStep
    BY <1>12, <1>1, <1>2 DEF Abort, Goes, TypeOK, ViewStep, Finite, ViewOf, stmtVars, scanVars, transVars
  <2> QED BY <2>1, <2>2, <2>3 DEF Good
<1>13. CASE EndStatus(s)
  <2>1. TypeOK'
    <3>1. Open(s) \in SUBSET Stmts
      BY DEF Open
    <3> QED BY <3>1, <1>13, <1>1 DEF EndStatus, Goes, TypeOK, scanVars
  <2>2. SlotInv(s)'
    BY <1>13, <1>1, <1>2 DEF EndStatus, Goes, TypeOK, SlotInv, Finite, Open, ViewOf, MinWith, stmtVars, scanVars, transVars
  <2>3. ViewStep
    BY <1>13, <1>1, <1>2 DEF EndStatus, Goes, TypeOK, ViewStep, Finite, ViewOf, stmtVars, scanVars, transVars
  <2> QED BY <2>1, <2>2, <2>3 DEF Good
<1>14. CASE NextTID(s)
  <2>1. TypeOK'
    BY <1>14, <1>1, <1>2 DEF NextTID, Goes, TypeOK, Finite, ViewOf, MinWith, stmtVars, scanVars, transVars
  <2>2. SlotInv(s)'
    BY <1>14, <1>1, <1>2 DEF NextTID, Goes, TypeOK, SlotInv, Finite, Open, ViewOf, MinWith, stmtVars, scanVars, transVars
  <2>3. ViewStep
    BY <1>14, <1>1, <1>2 DEF NextTID, Goes, TypeOK, ViewStep, Finite, ViewOf, stmtVars, scanVars, transVars
  <2> QED BY <2>1, <2>2, <2>3 DEF Good
<1>15. CASE InitSlot(s)
  <2>1. TypeOK'
    BY <1>15, <1>1, <1>2 DEF InitSlot, Goes, TypeOK, Finite, ViewOf, MinWith, stmtVars, scanVars, transVars
  <2>2. SlotInv(s)'
    BY <1>15, <1>1, <1>2 DEF InitSlot, Goes, TypeOK, SlotInv, Finite, Open, ViewOf, MinWith, stmtVars, scanVars, transVars
  <2>3. ViewStep
    BY <1>15, <1>1, <1>2 DEF InitSlot, Goes, TypeOK, ViewStep, Finite, ViewOf, stmtVars, scanVars, transVars
  <2> QED BY <2>1, <2>2, <2>3 DEF Good
<1>16. ASSUME NEW k \in Stmts, SetView(s, k) PROVE Good(s)
  <2>1. TypeOK'
    BY <1>16, <1>1, <1>2 DEF SetView, Goes, TypeOK, Finite, ViewOf, MinWith, stmtVars, scanVars, transVars
  <2>2. SlotInv(s)'
    BY <1>16, <1>1, <1>2 DEF SetView, Goes, TypeOK, SlotInv, Finite, Open, ViewOf, MinWith, LeastView, stmtVars, scanVars, transVars
  <2>3. ViewStep
    BY <1>16, <1>1, <1>2 DEF SetView, Goes, TypeOK, ViewStep, Finite, ViewOf, stmtVars, scanVars, transVars
  <2> QED BY <2>1, <2>2, <2>3 DEF Good
<1>17. ASSUME NEW k \in Stmts, EndStmt(s, k) PROVE Good(s)
  <2>1. TypeOK'
    <3>1. mMinMemViewSCN' \in [Slots -> Finite \cup {Infinite}]
      BY <1>17, <1>1 DEF EndStmt, TypeOK
    <3>2. view' \in [Slots -> [Stmts -> Finite]]
      BY <1>17, <1>1, <1>2 DEF EndStmt, TypeOK, Finite
    <3>3. legacy' \in [Slots -> SUBSET Stmts]
      BY <1>17, <1>1 DEF EndStmt, TypeOK
    <3> QED BY <3>1, <3>2, <3>3, <1>17, <1>1 DEF EndStmt, TypeOK, scanVars
  <2>2. SlotInv(s)'
    BY <1>17, <1>1, <1>2 DEF EndStmt, Goes, TypeOK, SlotInv, Finite, Open, ViewOf, MinWith, LeastView, stmtVars, scanVars, transVars
  <2>3. ViewStep
    BY <1>17, <1>1, <1>2 DEF EndStmt, Goes, TypeOK, ViewStep, Finite, ViewOf, stmtVars, scanVars, transVars
  <2> QED BY <2>1, <2>2, <2>3 DEF Good
<1> QED BY <1>3, <1>4, <1>5, <1>6, <1>7, <1>8, <1>9, <1>10, <1>11, <1>12, <1>13, <1>14, <1>15, <1>16, <1>17 DEF Trans, OpensView, Committing, Ending

\* A walk whose current minimum has been read is a walk.
LEMMA WalkRead ==
  ASSUME NEW w \in Walk, NEW c \in Finite \cup {Infinite}
  PROVE  [w EXCEPT !.step = "status", !.cur = c] \in Walk
BY DEF Walk

\* A scanner's own step keeps what it knows: the flag it saw unlocked, the minimum it
\* read and the status decide about the slot at which it stands.
LEMMA ScanSteps ==
  ASSUME VInv, NEW a \in Scanners, Scan(a)
  PROVE  TypeOK' /\ (\A s \in Slots : SlotInv(s)') /\ (\A b \in Scanners : ScanInv(b)')
<1> USE ViewSCNAssumption
<1>1. TypeOK /\ ScanInv(a) /\ \A s \in Slots : SlotInv(s)
  BY DEF VInv
<1>2. /\ lst \in Nat /\ lst <= LastSCN /\ safe[a] \in Nat
      /\ scan[a].min \in Nat /\ scan[a].cur \in Nat /\ scan[a].at \in Slots
  BY <1>1 DEF TypeOK, Walk, Finite, Infinite
<1>3. UNCHANGED <<lst, transVars, stmtVars, pc, scn>>
  BY DEF Scan, StartScan, PassFlag, ReadMin, TakeMin, EndScan
<1>4. ASSUME NEW s \in Slots PROVE SlotInv(s)'
  BY <1>1, <1>3, <1>4 DEF SlotInv, Open, transVars, stmtVars, ViewOf
<1>5. ASSUME NEW b \in Scanners, b # a PROVE ScanInv(b)'
  <2>1. ScanInv(b)
    BY DEF VInv
  <2>2. scan'[b] = scan[b] /\ safe'[b] = safe[b]
    BY <1>1, <1>5 DEF Scan, StartScan, PassFlag, ReadMin, TakeMin, EndScan, TypeOK, Walk
  <2> QED BY <2>1, <2>2, <1>3 DEF ScanInv, WalkInv, Covers, Open, transVars, stmtVars, ViewOf
<1>6. ASSUME NEW m \in Nat, NEW s \in Slots PROVE Covers(m, s)' <=> Covers(m, s)
  BY <1>3 DEF Covers, Open, stmtVars
<1>7. CASE StartScan(a)
  <2>1. TypeOK'
    <3>1. 0 \in Slots /\ ViewOf(lst) \in Finite
      BY <1>2 DEF Slots, ViewOf, Finite
    <3>2. [at |-> 0, step |-> "flag", min |-> ViewOf(lst), cur |-> 0, tid |-> NullTID] \in Walk
      BY <3>1 DEF Walk, Finite
    <3>3. 0 \in Finite
      BY DEF Finite
    <3> QED BY <3>2, <3>3, <1>7, <1>1 DEF StartScan, TypeOK, Walk, transVars, stmtVars
  <2>2. scan'[a].step = "flag" /\ scan'[a].at = 0 /\ scan'[a].min = ViewOf(lst) /\ safe'[a] = 0
    BY <1>7, <1>1 DEF StartScan, TypeOK, Walk
  <2>3. \A s \in Slots : Covers(0, s)'
    <3> TAKE s \in Slots
    <3>1. \A k \in Stmts : view[s][k] \in Nat
      BY <1>1 DEF TypeOK, Finite
    <3>2. scn[s] \in Nat
      BY <1>1 DEF TypeOK, Finite
    <3>3. Covers(0, s)
      BY <3>1, <3>2 DEF Covers, Open
    <3> QED BY <3>3, <1>6
  <2>4. ScanInv(a)'
    BY <2>2, <2>3, <1>1, <1>2, <1>3 DEF ScanInv, WalkInv, ViewOf, Slots
  <2> QED BY <2>1, <2>4, <1>4, <1>5
<1>8. CASE PassFlag(a)
  <2>1. TypeOK'
    BY <1>8, <1>1, <1>2 DEF PassFlag, TypeOK, Walk, transVars, stmtVars
  <2>2. scan'[a] = [scan[a] EXCEPT !.step = "min"] /\ safe' = safe /\ pc[scan[a].at] # "set"
    BY <1>8, <1>1, <1>2 DEF PassFlag, TypeOK, Walk, SlotInv
  <2>3. WalkInv(a)
    BY <1>8, <1>1 DEF PassFlag, ScanInv
  <2>4. ScanInv(a)'
    BY <2>2, <2>3, <1>1, <1>2, <1>3, <1>6 DEF ScanInv, WalkInv, ViewOf
  <2> QED BY <2>1, <2>4, <1>4, <1>5
<1>9. CASE ReadMin(a)
  <2> DEFINE at == scan[a].at
  <2>1. TypeOK'
    <3>1. mMinMemViewSCN[at] \in Finite \cup {Infinite}
      BY <1>1, <1>2 DEF TypeOK, Walk
    <3>2. [scan[a] EXCEPT !.step = "status", !.cur = mMinMemViewSCN[at]] \in Walk
      BY <3>1, <1>1, WalkRead DEF TypeOK
    <3>3. scan' = [scan EXCEPT ![a] = [scan[a] EXCEPT !.step = "status", !.cur = mMinMemViewSCN[at]]]
      BY <1>9, <1>1 DEF ReadMin, TypeOK, Walk
    <3> QED BY <3>2, <3>3, <1>9, <1>1 DEF ReadMin, TypeOK, Walk, transVars, stmtVars
  <2>2. scan'[a] = [scan[a] EXCEPT !.step = "status", !.cur = mMinMemViewSCN[at]] /\ safe' = safe
    BY <1>9, <1>1, <1>2 DEF ReadMin, TypeOK, Walk
  <2>3. WalkInv(a) /\ scan[a].step = "min"
    BY <1>9, <1>1 DEF ReadMin, ScanInv
  <2>4. \A k \in Open(at) : mMinMemViewSCN[at] <= view[at][k]
    BY <1>1, <1>2 DEF SlotInv
  <2>5. ScanInv(a)'
    BY <2>2, <2>3, <2>4, <1>1, <1>2, <1>3, <1>6 DEF ScanInv, WalkInv, ViewOf, Open, stmtVars
  <2> QED BY <2>1, <2>5, <1>4, <1>5
<1>10. ASSUME scan[a].step = "status"
       PROVE  /\ Taken(a).min \in Finite /\ Taken(a).min <= ViewOf(lst)
              /\ \A s \in Slots : s <= scan[a].at => Covers(Taken(a).min, s)
              /\ Taken(a).tid \in Nat \cup {NullTID}
  <2> DEFINE at == scan[a].at
             min == scan[a].min
             m == IF TakesMin(a) THEN scan[a].cur ELSE scan[a].min
  <2>1. WalkInv(a)
    BY <1>10, <1>1 DEF ScanInv
  <2>2. Taken(a).min = m /\ Taken(a).tid = IF TakesMin(a) THEN mTransID[at] ELSE scan[a].tid
    BY <1>1, <1>2 DEF Taken, TypeOK, Walk
  <2>3. m \in Nat /\ m <= min /\ min \in Finite /\ m \in Finite
    BY <1>1, <1>2 DEF TakesMin, TypeOK, Walk, Finite
  <2>4. m <= ViewOf(lst)
    BY <2>1, <2>3, <1>2 DEF WalkInv, ViewOf, Finite
  <2>5. ASSUME NEW s \in Slots, s < at PROVE Covers(m, s)
    <3>1. Covers(min, s)
      BY <2>1, <2>5 DEF WalkInv
    <3>2. scn[s] \in Nat /\ \A k \in Open(s) : view[s][k] \in Nat
      BY <1>1 DEF TypeOK, Walk, Finite, Open
    <3> QED BY <3>1, <3>2, <2>3 DEF Covers, Finite
  <2>6. Covers(m, at)
    <3>1. scn[at] \in Nat /\ \A k \in Open(at) : view[at][k] \in Nat
      BY <1>1, <1>2 DEF TypeOK, Walk, Finite, Open
    <3>2. pc[at] = "set" => m <= scn[at]
      BY <3>1, <2>1, <2>3, <1>10, <1>2 DEF WalkInv, Finite
    <3>3. CASE mStatus[at] = "END"
      <4>1. Open(at) = {}
        BY <3>3, <1>1, <1>2 DEF SlotInv
      <4> QED BY <4>1, <3>2 DEF Covers
    <3>4. CASE mStatus[at] # "END"
      <4>1. m <= scan[a].cur
        BY <3>4, <1>2 DEF TakesMin
      <4>2. ASSUME NEW k \in Open(at) PROVE m <= view[at][k]
        BY <4>1, <4>2, <3>1, <2>1, <2>3, <1>10, <1>2 DEF WalkInv, Finite
      <4> QED BY <4>2, <3>2 DEF Covers
    <3> QED BY <3>3, <3>4
  <2>7. Taken(a).tid \in Nat \cup {NullTID}
    BY <2>2, <1>1, <1>2 DEF TypeOK, Walk
  <2> QED BY <2>2, <2>3, <2>4, <2>5, <2>6, <2>7, <1>2 DEF Slots
<1>11. CASE TakeMin(a)
  <2>1. scan[a].step = "status"
    BY <1>11 DEF TakeMin
  <2>2. Taken(a) \in Walk
    <3>1. scan[a].at + 1 \in Slots
      BY <1>11, <1>2 DEF TakeMin, Slots
    <3>2. scan[a] \in Walk /\ mTransID[scan[a].at] \in Nat
      BY <1>1, <1>2 DEF TypeOK, Walk
    <3>3. Taken(a).min \in Finite /\ Taken(a).tid \in Nat \cup {NullTID}
      BY <2>1, <1>10
    <3> QED BY <3>1, <3>2, <3>3, <1>2 DEF Taken, Walk, Finite
  <2>3. TypeOK'
    BY <2>2, <1>11, <1>1 DEF TakeMin, TypeOK, Walk, transVars, stmtVars
  <2>4. scan'[a] = Taken(a) /\ safe' = safe
    BY <1>11, <1>1 DEF TakeMin, TypeOK, Walk
  <2>5. Taken(a).at = scan[a].at + 1 /\ Taken(a).step = "flag"
    BY <1>1 DEF Taken, TypeOK, Walk
  <2>6. PICK m : m = Taken(a).min
    OBVIOUS
  <2>7. m \in Nat /\ m <= ViewOf(lst) /\ scan'[a].min = m
    BY <2>1, <2>4, <2>6, <1>10 DEF Finite
  <2>8. ASSUME NEW s \in Slots, s < scan'[a].at PROVE Covers(m, s)'
    <3>1. s <= scan[a].at
      BY <2>4, <2>5, <2>8, <1>2 DEF Slots
    <3> QED BY <3>1, <2>1, <2>6, <2>7, <1>6, <1>10
  <2>9. scan'[a].step = "flag"
    BY <2>4, <2>5
  <2>10. WalkInv(a)'
    BY <2>7, <2>8, <2>9, <1>3 DEF WalkInv, ViewOf
  <2>11. ScanInv(a)'
    BY <2>4, <2>10, <1>1, <1>2, <1>3, <1>6 DEF ScanInv, ViewOf
  <2> QED BY <2>3, <2>11, <1>4, <1>5
<1>12. CASE EndScan(a)
  <2>1. scan[a].step = "status" /\ \A s \in Slots : s <= scan[a].at
    BY <1>12, <1>2 DEF EndScan, Slots
  <2>2. safe'[a] = Taken(a).min /\ scan'[a].step = "idle"
    BY <1>12, <1>1 DEF EndScan, TypeOK, Walk, Idle
  <2>3. Taken(a).min \in Finite
    BY <2>1, <1>10
  <2>4. TypeOK'
    <3>1. Idle \in Walk
      BY DEF Idle, Walk, Slots, Finite
    <3> QED BY <3>1, <2>3, <1>12, <1>1 DEF EndScan, TypeOK, Walk, transVars, stmtVars
  <2>5. PICK m : m = Taken(a).min
    OBVIOUS
  <2>6. m \in Nat /\ m <= ViewOf(lst) /\ safe'[a] = m /\ \A s \in Slots : Covers(m, s)'
    BY <2>1, <2>2, <2>5, <1>6, <1>10 DEF Finite
  <2>7. ScanInv(a)'
    BY <2>2, <2>6, <1>3 DEF ScanInv, ViewOf
  <2> QED BY <2>4, <2>7, <1>4, <1>5
<1> QED BY <1>7, <1>8, <1>9, <1>11, <1>12 DEF Scan

\* VInv holds initially.
LEMMA Initially == Init => VInv
<1> SUFFICES ASSUME Init PROVE VInv
  OBVIOUS
<1> USE ViewSCNAssumption DEF Init
<1>1. 0 \in Slots
  BY DEF Slots
<1>2. TypeOK
  BY <1>1 DEF TypeOK, Walk, Idle, Finite, Slots
<1>3. \A s \in Slots : Open(s) = {}
  BY DEF Open
<1>4. \A s \in Slots : SlotInv(s)
  BY <1>3 DEF SlotInv
<1>5. \A a \in Scanners : ScanInv(a)
  BY <1>3 DEF ScanInv, Covers, ViewOf, Idle
<1> QED BY <1>2, <1>4, <1>5 DEF VInv

\* VInv is kept by every step: a slot's step changes nothing of the other slots
\* and does not disturb a scanner, a scanner's step changes no slot.
LEMMA Kept == VInv /\ [Next]_viewVars => VInv'
<1> SUFFICES ASSUME VInv, [Next]_viewVars PROVE VInv'
  OBVIOUS
<1> USE ViewSCNAssumption
<1>1. ASSUME NEW s \in Slots, Trans(s) PROVE VInv'
  <2>1. TypeOK' /\ SlotInv(s)' /\ ViewStep
    BY <1>1, SlotSteps DEF Good
  <2>2. ASSUME NEW r \in Slots, r # s PROVE SlotInv(r)'
    <3>1. TypeOK /\ SlotInv(r) /\ lst' \in Nat /\ lst <= lst'
      BY <2>1 DEF VInv, ViewStep
    <3>2. /\ pc'[r] = pc[r] /\ scn'[r] = scn[r] /\ view'[r] = view[r] /\ legacy'[r] = legacy[r]
          /\ mStatus'[r] = mStatus[r] /\ mMinMemViewSCN'[r] = mMinMemViewSCN[r]
          /\ mLSLockFlag'[r] = mLSLockFlag[r]
      BY <1>1, <2>2, <3>1 DEF TypeOK, Trans, OpensView, Committing, Ending, Begin, LockView, GetView, SetView,
         EndStmt, PreCommit, TakeSCN, SetCommitSCN, SetCommitStatus, HoldView, CommitEmpty, Abort, EndStatus,
         NextTID, InitSlot, Goes, stmtVars, transVars, scanVars
    <3> QED BY <3>1, <3>2, OthersKept
  <2>3. \A a \in Scanners : ScanInv(a)'
    BY <2>1, ScanKept
  <2> QED BY <2>1, <2>2, <2>3 DEF VInv
<1>2. ASSUME NEW a \in Scanners, Scan(a) PROVE VInv'
  BY <1>2, ScanSteps DEF VInv
<1>3. CASE UNCHANGED viewVars
  BY <1>3 DEF VInv, viewVars, TypeOK, SlotInv, ScanInv, WalkInv, Covers, Open, ViewOf, stmtVars, transVars, scanVars
<1> QED BY <1>1, <1>2, <1>3 DEF Next

\* The inductive invariant: what holds of every slot and of every scanner at any
\* point of its walk.
THEOREM ViewInvariance == Spec => []VInv
BY Initially, Kept, PTL DEF Spec

\* Every variable keeps its type.
THEOREM ViewTypes == Spec => []TypeOK
<1>1. VInv => TypeOK
  BY DEF VInv
<1> QED BY <1>1, ViewInvariance, PTL

\* No ager ever works with a minimum above the view of a statement that is open or
\* about to be (getMinMemViewSCNofAll, allocViewSCN).
THEOREM MinimumSafe == Spec => []MinCoversViews
<1>1. VInv => MinCoversViews
  BY DEF VInv, ScanInv, MinCoversViews
<1> QED BY <1>1, ViewInvariance, PTL

\* No scan skips a slot with an open view, not even between the transactions of a
\* slot that keeps a legacy statement open (end, begin, PROJ-1381).
THEOREM ViewsAlwaysCounted == Spec => []ViewsCounted
<1>1. VInv => ViewsCounted
  BY ViewSCNAssumption DEF VInv, SlotInv, ViewsCounted, TypeOK, Infinite, ViewOf, Open, Finite
<1> QED BY <1>1, ViewInvariance, PTL

\* While a transaction runs or its slot is free, and no legacy statement is left, the
\* slot's minimum is exact; the view it is about to enter is one (no view is 0).
MinInv(s) ==
  /\ pc[s] \in {"end", "run", "view", "set"} /\ legacy[s] = {} =>
       LeastView(s, Open(s), mMinMemViewSCN[s])
  /\ pc[s] = "set" => scn[s] # 0

\* The statement that enters its view: a minimum there is of older views, and the
\* first view of a slot becomes its minimum (allocViewSCN, trySetupMinMemViewSCN).
LEMMA EnteredExactly ==
  ASSUME VInv, NEW s \in Slots, MinInv(s), NEW k \in Stmts, SetView(s, k)
  PROVE  MinInv(s)'
<1>1. /\ pc[s] = "set" /\ pc'[s] = "run" /\ legacy' = legacy /\ k \notin Open(s)
      /\ view'[s][k] = scn[s] /\ mMinMemViewSCN'[s] = MinWith(s, scn[s])
      /\ \A j \in Stmts \ {k} : view'[s][j] = view[s][j]
  BY DEF VInv, TypeOK, SetView, Goes
<1>2. /\ scn[s] \in Nat /\ scn[s] # 0 /\ scn[s] # Infinite
      /\ \A j \in Stmts : view[s][j] \in Nat /\ view[s][j] # Infinite
  BY <1>1, ViewSCNAssumption DEF VInv, TypeOK, Finite, Infinite, MinInv
<1>3. Open(s)' = Open(s) \cup {k}
  BY <1>1, <1>2 DEF Open
<1>4. mMinMemViewSCN[s] # Infinite => mMinMemViewSCN[s] <= scn[s]
  BY <1>1 DEF VInv, SlotInv
<1>5. SUFFICES ASSUME legacy[s] = {}, LeastView(s, Open(s), mMinMemViewSCN[s])
               PROVE  LeastView(s, Open(s), mMinMemViewSCN[s])'
  BY <1>1 DEF MinInv
<1>6. CASE Open(s) = {}
  BY <1>1, <1>2, <1>3, <1>5, <1>6 DEF LeastView, MinWith
<1>7. CASE Open(s) # {}
  <2>1. PICK j \in Open(s) : mMinMemViewSCN[s] = view[s][j]
    BY <1>5, <1>7 DEF LeastView
  <2>2. j \in Stmts /\ j # k /\ mMinMemViewSCN[s] # Infinite
    BY <2>1, <1>1, <1>2 DEF Open
  <2>3. mMinMemViewSCN'[s] = view'[s][j] /\ view'[s][j] = view[s][j]
    BY <2>1, <2>2, <1>1 DEF MinWith
  <2>4. \A i \in Open(s) \cup {k} : view[s][j] <= view'[s][i]
    <3> TAKE i \in Open(s) \cup {k}
    <3>1. CASE i = k
      BY <3>1, <2>1, <2>2, <1>1, <1>4
    <3>2. CASE i # k
      <4>1. i \in Open(s) /\ view'[s][i] = view[s][i]
        BY <3>2, <1>1 DEF Open
      <4> QED BY <4>1, <2>1, <1>5, <1>7 DEF LeastView
    <3> QED BY <3>1, <3>2
  <2> QED BY <2>1, <2>2, <2>3, <2>4, <1>3 DEF LeastView
<1> QED BY <1>6, <1>7

\* The statement that ends: the minimum is computed anew from the others unless a
\* legacy statement is left (smiStatement::end).
LEMMA LeftExactly ==
  ASSUME VInv, NEW s \in Slots, MinInv(s), NEW k \in Stmts, EndStmt(s, k)
  PROVE  MinInv(s)'
<1>1. /\ pc[s] = "run" /\ pc' = pc /\ scn' = scn
      /\ view'[s] = [view[s] EXCEPT ![k] = 0] /\ legacy'[s] = legacy[s] \ {k}
  BY DEF VInv, TypeOK, EndStmt
<1>2. Open(s)' = Open(s) \ {k} /\ \A j \in Open(s) \ {k} : view'[s][j] = view[s][j]
  BY <1>1 DEF VInv, TypeOK, Open
<1>3. SUFFICES ASSUME legacy[s] \ {k} = {}
               PROVE  LeastView(s, Open(s), mMinMemViewSCN[s])'
  BY <1>1 DEF MinInv
<1>4. PICK m : LeastView(s, Open(s) \ {k}, m) /\ mMinMemViewSCN'[s] = m
  BY <1>3 DEF EndStmt, VInv, TypeOK
<1> QED BY <1>2, <1>4 DEF LeastView

\* Every step keeps the minima exact.
LEMMA MinKept ==
  ASSUME VInv, \A s \in Slots : MinInv(s), [Next]_viewVars
  PROVE  \A s \in Slots : MinInv(s)'
<1> USE ViewSCNAssumption
<1> SUFFICES ASSUME NEW r \in Slots PROVE MinInv(r)'
  OBVIOUS
<1>1. TypeOK /\ SlotInv(r) /\ MinInv(r)
  BY DEF VInv
<1>2. ASSUME /\ view'[r] = view[r] /\ legacy'[r] = legacy[r]
             /\ mMinMemViewSCN'[r] = mMinMemViewSCN[r]
             /\ pc'[r] \in {"end", "run", "view", "set"} => pc[r] \in {"end", "run", "view", "set"}
             /\ pc'[r] = "set" => scn'[r] # 0
      PROVE  MinInv(r)'
  BY <1>1, <1>2 DEF MinInv, LeastView, Open
<1>3. ASSUME NEW s \in Slots, Trans(s), s # r PROVE MinInv(r)'
  <2>1. /\ view'[r] = view[r] /\ legacy'[r] = legacy[r] /\ mMinMemViewSCN'[r] = mMinMemViewSCN[r]
        /\ pc'[r] = pc[r] /\ scn'[r] = scn[r]
    BY <1>1, <1>3 DEF TypeOK, Trans, OpensView, Committing, Ending, Begin, LockView, GetView, SetView,
       EndStmt, PreCommit, TakeSCN, SetCommitSCN, SetCommitStatus, HoldView, CommitEmpty, Abort, EndStatus,
       NextTID, InitSlot, Goes, stmtVars, transVars, scanVars
  <2> QED BY <2>1, <1>1, <1>2 DEF MinInv
<1>4. ASSUME NEW a \in Scanners, Scan(a) PROVE MinInv(r)'
  BY <1>1, <1>2, <1>4 DEF MinInv, Scan, StartScan, PassFlag, ReadMin, TakeMin, EndScan, transVars, stmtVars
<1>5. CASE UNCHANGED viewVars
  BY <1>1, <1>2, <1>5 DEF MinInv, viewVars, transVars, stmtVars
<1>6. ASSUME Begin(r) \/ LockView(r) PROVE MinInv(r)'
  BY <1>1, <1>2, <1>6 DEF TypeOK, Begin, LockView, Goes, stmtVars
<1>7. ASSUME GetView(r) PROVE MinInv(r)'
  <2>1. scn'[r] = lst + 1 /\ lst \in Nat
    BY <1>1, <1>7 DEF TypeOK, GetView, ViewOf
  <2> QED BY <2>1, <1>1, <1>2, <1>7 DEF TypeOK, GetView, Goes, stmtVars, transVars
<1>8. ASSUME PreCommit(r) \/ TakeSCN(r) \/ SetCommitSCN(r) \/ SetCommitStatus(r) \/ HoldView(r) \/ CommitEmpty(r)
             \/ Abort(r) \/ EndStatus(r) \/ NextTID(r)
      PROVE  MinInv(r)'
  <2>1. pc'[r] \notin {"end", "run", "view", "set"}
    BY <1>1, <1>8 DEF TypeOK, PreCommit, TakeSCN, SetCommitSCN, SetCommitStatus, HoldView, CommitEmpty, Abort,
       EndStatus, NextTID, Goes
  <2> QED BY <2>1 DEF MinInv
<1>9. ASSUME InitSlot(r) PROVE MinInv(r)'
  <2>1. pc[r] = "init" /\ pc'[r] = "end" /\ view' = view /\ legacy' = legacy
    BY <1>1, <1>9 DEF TypeOK, InitSlot, Goes, stmtVars
  <2>2. legacy[r] = {} => mMinMemViewSCN'[r] = Infinite /\ Open(r) = {}
    BY <2>1, <1>1, <1>9 DEF TypeOK, InitSlot, SlotInv
  <2> QED BY <2>1, <2>2 DEF MinInv, LeastView, Open
<1> QED
  BY <1>1, <1>3, <1>4, <1>5, <1>6, <1>7, <1>8, <1>9, EnteredExactly, LeftExactly
  DEF Next, Trans, OpensView, Committing, Ending

\* A slot's minimum is the least view of its statements whenever nobody is changing it
\* and no legacy statement is left, and never above one of them (allocViewSCN,
\* smiStatement::end, addOIDList2AgingList, init).
THEOREM MinimumExact == Spec => []SlotMinExact
<1>1. Init => \A s \in Slots : MinInv(s)
  BY DEF Init, MinInv, LeastView, Open
<1>2. VInv /\ (\A s \in Slots : MinInv(s)) => SlotMinExact
  <2> SUFFICES ASSUME VInv, NEW s \in Slots, MinInv(s)
               PROVE  /\ pc[s] \in {"run", "end"} /\ legacy[s] = {} => LeastView(s, Open(s), mMinMemViewSCN[s])
                      /\ \A k \in Open(s) : mMinMemViewSCN[s] <= view[s][k]
                      /\ pc[s] = "set" => mMinMemViewSCN[s] \in 0 .. scn[s] \cup {Infinite}
    BY DEF SlotMinExact
  <2>1. SlotInv(s) /\ mMinMemViewSCN[s] \in Nat /\ scn[s] \in Nat
    BY ViewSCNAssumption DEF VInv, TypeOK, Finite, Infinite
  <2> QED BY <2>1 DEF SlotInv, MinInv
<1>3. VInv /\ (\A s \in Slots : MinInv(s)) /\ [Next]_viewVars => (\A s \in Slots : MinInv(s))'
  BY MinKept
<1> QED BY <1>1, <1>2, <1>3, ViewInvariance, PTL DEF Spec
=============================================================================
