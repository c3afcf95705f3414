--------------------------- MODULE TransWait_proofs ---------------------------
(***************************************************************************)
(* The invariant of TransWaitInv is inductive, for any number of slots and *)
(* rows: no resume is lost, rows of the wait-for table are clean outside   *)
(* waits, a resume has its reason, and no deadlock stays undetected.  All  *)
(* this as long as NoTableLink holds, which legacy transactions with table *)
(* locks may break (README, section 5).                                    *)
(***************************************************************************)
EXTENDS TransWaitInv, QueueLemmas

\* The initial state.
LEMMA InitWaits == Init => WInv /\ DeadlockInv
<1> SUFFICES ASSUME Init PROVE WInv /\ DeadlockInv
  OBVIOUS
<1> USE WaitConstAssumption
<1>0. /\ <<>> \in Seq(Trans) /\ IsInjective(<<>>) /\ ToSet(<<>>) = {}
  BY SeqEmpty
<1>c. Cardinality(Trans) \in Nat
  BY FS_CardinalityType
<1>1. TypeOK
  <2>1. /\ owner \in [Rows -> Trans \cup {NoTrans}]
        /\ mTransID \in [Trans -> 0 .. TidCycle - 1]
        /\ mStatus \in [Trans -> {"BEGIN", "BLOCKED", "COMMIT", "END"}]
        /\ legacy \in [Trans -> SUBSET (0 .. TidCycle - 1)]
    BY DEF Init
  <2>2. /\ mIndex \in [Trans -> [Trans -> 0 .. Cardinality(Trans)]]
        /\ chain \in [Trans -> SUBSET Trans]
        /\ recList \in [Trans -> Seq(Trans)]
        /\ queue \in Seq(Trans)
    BY <1>0, <1>c DEF Init
  <2>3. /\ tbl \in [Trans -> TableMode \cup {"N"}]
        /\ pc \in [Trans -> PC]
        /\ want \in [Trans -> Rows \cup TableMode \cup {Nothing}]
        /\ cur \in [Trans -> Trans \cup {NoTrans}]
    BY DEF Init, PC
  <2>4. /\ target \in [Trans -> [slot : Trans \cup {NoTrans}, tid : 0 .. TidCycle - 1]]
        /\ path \in [Trans -> [len : 0 .. Cardinality(Trans), todo : SUBSET Trans, more : BOOLEAN]]
    BY <1>c DEF Init, NoTarget, NoPath
  <2> QED BY <2>1, <2>2, <2>3, <2>4 DEF TypeOK
<1>2. ItemInv
  BY <1>0 DEF Init, ItemInv
<1>3. ASSUME NEW t \in Trans
      PROVE  ThreadInv(t) /\ EndInv(t) /\ ChainInv(t) /\ RowInv(t) /\ ListInv(t) /\ TableInv(t)
  <2>1. /\ pc[t] = "idle" /\ want[t] = Nothing /\ mStatus[t] = "END" /\ chain[t] = {} /\ tbl[t] = "N"
        /\ recList[t] = <<>> /\ queue = <<>> /\ legacy[t] = {}
        /\ \A u \in Trans : mIndex[t][u] = 0
        /\ \A r \in Rows : owner[r] # t
    BY DEF Init
  <2>2. Nothing \notin Rows /\ Nothing \notin TableMode
    OBVIOUS
  <2>3. ~ ForRow(t) /\ ~ ForTable(t) /\ ~ InWait(t) /\ ~ Blocked(t)
    BY <2>1, <2>2 DEF ForRow, ForTable, InWait, Blocked
  <2> QED BY <1>0, <2>1, <2>3 DEF ThreadInv, EndInv, ChainInv, RowInv, ListInv, TableInv
<1>4. DeadlockInv
  BY DEF DeadlockInv, Closed, Sleeps, Blocked, Init
<1> QED BY <1>1, <1>2, <1>3, <1>4 DEF WInv

-----------------------------------------------------------------------------
(* The queue of the table.                                                 *)

\* The requests granted at once are the first ones.
LEMMA GrantedFirst ==
  ASSUME NEW q \in Seq(Trans), NEW h
  PROVE  \E n \in 0 .. Len(q) : GrantedHeads(q, h) = 1 .. n
<1> DEFINE G == GrantedHeads(q, h)
           T == (1 .. Len(q) + 1) \ G
<1>1. Len(q) \in Nat /\ DOMAIN q = 1 .. Len(q)
  OBVIOUS
<1>2. G \subseteq 1 .. Len(q) /\ \A k \in G : \A i \in 1 .. k : i \in G
  BY <1>1 DEF GrantedHeads
<1> HIDE DEF G
<1>3. T \in SUBSET Nat /\ T # {}
  <2>1. Len(q) + 1 \in T
    BY <1>1, <1>2
  <2> QED BY <2>1, <1>1
<1>4. PICK m \in T : \A k \in T : m <= k
  <2> HIDE DEF T
  <2> QED BY <1>3, Smallest
<1>5. m \in 1 .. Len(q) + 1 /\ m \notin G /\ \A k \in 1 .. Len(q) + 1 : k \notin G => m <= k
  BY <1>4
<1>6. ASSUME NEW k \in 1 .. m - 1 PROVE k \in G
  BY <1>1, <1>5, <1>6
<1>7. ASSUME NEW k \in G PROVE k \in 1 .. m - 1
  <2>1. ~ (m <= k)
    BY <1>1, <1>2, <1>5, <1>7
  <2> QED BY <2>1, <1>1, <1>2, <1>5
<1>8. m - 1 \in 0 .. Len(q)
  BY <1>1, <1>5
<1>9. G = 1 .. m - 1
  BY <1>6, <1>7
<1> QED BY <1>8, <1>9 DEF G

\* What unlockTable leaves of a queue q without duplicates: t is taken out, and the
\* requests at the head.
LEMMA QueueSplit ==
  ASSUME NEW q \in Seq(Trans), IsInjective(q), NEW n \in 0 .. Len(q)
  PROVE  LET rest == SubSeq(q, n + 1, Len(q))
             first == {q[k] : k \in 1 .. n} IN
         /\ rest \in Seq(Trans) /\ IsInjective(rest)
         /\ first \subseteq ToSet(q) /\ ToSet(rest) = ToSet(q) \ first
         /\ \A u \in first, v \in ToSet(rest) :
              \E k, l \in DOMAIN q : k < l /\ q[k] = u /\ q[l] = v
         /\ \A k, l \in DOMAIN rest : k < l =>
              \E i, j \in DOMAIN q : i < j /\ q[i] = rest[k] /\ q[j] = rest[l]
<1> DEFINE rest == SubSeq(q, n + 1, Len(q))
           first == {q[k] : k \in 1 .. n}
<1>1. Len(q) \in Nat /\ DOMAIN q = 1 .. Len(q) /\ n \in 0 .. Len(q)
  OBVIOUS
<1>2. /\ rest \in Seq(Trans) /\ Len(rest) = Len(q) - n
      /\ \A i \in 1 .. Len(q) - n : rest[i] = q[n + i]
  <2>1. /\ rest \in Seq(Trans)
        /\ Len(rest) = IF n + 1 <= Len(q) THEN Len(q) - (n + 1) + 1 ELSE 0
        /\ \A i \in 1 .. Len(q) - (n + 1) + 1 : rest[i] = q[n + 1 + i - 1]
    BY <1>1, SubSeqProperties
  <2> HIDE DEF rest
  <2>a. PICK N \in Nat : N = Len(q) /\ n \in 0 .. N
    BY <1>1
  <2>b. /\ N - n \in Nat /\ (n + 1 <= N => N - (n + 1) + 1 = N - n) /\ (~ (n + 1 <= N) => N - n = 0)
        /\ N - (n + 1) + 1 = N - n
    BY <2>a
  <2>2. PICK k \in Nat : k = N - n
    BY <2>b
  <2>3. Len(rest) = k
    BY <2>1, <2>2, <2>a, <2>b
  <2>4. ASSUME NEW i \in 1 .. k PROVE rest[i] = q[n + i]
    <3>1. i \in 1 .. N - (n + 1) + 1 /\ n + 1 + i - 1 = n + i
      BY <2>a, <2>2, <2>b
    <3> QED BY <3>1, <2>1, <2>a
  <2> QED BY <2>1, <2>2, <2>3, <2>4, <2>a
<1> HIDE DEF rest
<1>3. DOMAIN rest = 1 .. Len(q) - n
  BY <1>1, <1>2
<1>4. \A i \in DOMAIN rest : n + i \in DOMAIN q /\ rest[i] = q[n + i] /\ n + i > n
  BY <1>1, <1>2, <1>3
<1>5. \A k \in DOMAIN q : k \in 1 .. n \/ (k - n \in DOMAIN rest /\ rest[k - n] = q[k])
  BY <1>1, <1>2, <1>3
<1>6. IsInjective(rest)
  BY <1>1, <1>3, <1>4 DEF IsInjective
<1>7. first \subseteq ToSet(q)
  BY <1>1 DEF ToSet
<1>8. ToSet(rest) = ToSet(q) \ first
  <2>1. ASSUME NEW x \in ToSet(rest) PROVE x \in ToSet(q) /\ x \notin first
    BY <1>1, <1>4 DEF ToSet, IsInjective
  <2>2. ASSUME NEW x \in ToSet(q), x \notin first PROVE x \in ToSet(rest)
    BY <1>5, <2>2 DEF ToSet
  <2> QED BY <2>1, <2>2
<1>9. ASSUME NEW u \in first, NEW v \in ToSet(rest)
      PROVE  \E k, l \in DOMAIN q : k < l /\ q[k] = u /\ q[l] = v
  <2>1. PICK k \in 1 .. n : u = q[k]
    OBVIOUS
  <2>2. PICK i \in DOMAIN rest : v = rest[i]
    BY DEF ToSet
  <2>3. k \in DOMAIN q /\ k < n + i
    BY <1>1, <1>3, <2>1, <2>2
  <2> QED BY <2>1, <2>2, <2>3, <1>4
<1>10. ASSUME NEW k \in DOMAIN rest, NEW l \in DOMAIN rest, k < l
       PROVE  \E i, j \in DOMAIN q : i < j /\ q[i] = rest[k] /\ q[j] = rest[l]
  <2>1. n + k < n + l
    BY <1>1, <1>3, <1>10
  <2> QED BY <2>1, <1>4
<1> QED BY <1>2, <1>6, <1>7, <1>8, <1>9, <1>10 DEF rest

\* A request is taken out wherever it is.
LEMMA QueueLess ==
  ASSUME queue \in Seq(Trans), IsInjective(queue), NEW t \in Trans
  PROVE  /\ QueueWithout(t) \in Seq(Trans) /\ IsInjective(QueueWithout(t))
         /\ ToSet(QueueWithout(t)) = ToSet(queue) \ {t}
         /\ \A k, l \in DOMAIN QueueWithout(t) : k < l =>
              Ahead(QueueWithout(t)[k], QueueWithout(t)[l])
<1>1. PICK q : q = queue
  OBVIOUS
<1>2. CASE t \notin ToSet(queue)
  BY <1>2 DEF QueueWithout, Ahead
<1>3. CASE t \in ToSet(queue)
  <2>1. PICK k \in DOMAIN q : q[k] = t /\ QueueWithout(t) = RemoveAt(q, k)
    BY <1>1, <1>3 DEF QueueWithout, ToSet
  <2>2. Len(q) \in Nat /\ DOMAIN q = 1 .. Len(q) /\ q \in Seq(Trans) /\ IsInjective(q)
    BY <1>1
  <2> DEFINE r == RemoveAt(q, k)
  <2>3. r \in Seq(Trans) /\ IsInjective(r) /\ ToSet(r) = ToSet(q) \ {t}
    BY <2>1, <2>2, SeqRemove
  <2>4. /\ Len(r) = Len(q) - 1
        /\ \A j \in DOMAIN r : r[j] = IF j < k THEN q[j] ELSE q[j + 1]
    BY <2>2, RemoveAtProperties
  <2> HIDE DEF r
  <2>5. DOMAIN r = 1 .. Len(q) - 1
    BY <2>3, <2>4
  <2>6. ASSUME NEW a \in DOMAIN r, NEW b \in DOMAIN r, a < b PROVE Ahead(r[a], r[b])
    <3>1. PICK i \in DOMAIN q : r[a] = q[i] /\ (i = a \/ i = a + 1) /\ (i = a => a < k) /\ (i = a + 1 => k <= a)
      BY <2>1, <2>2, <2>4, <2>5
    <3>2. PICK j \in DOMAIN q : r[b] = q[j] /\ (j = b \/ j = b + 1) /\ (j = b => b < k) /\ (j = b + 1 => k <= b)
      BY <2>1, <2>2, <2>4, <2>5
    <3>3. i < j
      BY <2>1, <2>2, <2>5, <2>6, <3>1, <3>2
    <3> QED BY <1>1, <3>1, <3>2, <3>3 DEF Ahead
  <2> QED BY <1>1, <2>1, <2>3, <2>6 DEF r
<1> QED BY <1>2, <1>3

\* LeaveTable with W woken.
Left(t, status, row, W) ==
  /\ W \subseteq ToSet(queue) \ {t}
  /\ queue' \in Seq(Trans) /\ IsInjective(queue')
  /\ ToSet(queue') = (ToSet(queue) \ {t}) \ W
  /\ \A u \in Trans, v \in ToSet(queue') : u \in W \/ Ahead(u, v)' => Ahead(u, v)
  /\ tbl' = [u \in Trans |-> IF u = t THEN "N" ELSE IF u \in W THEN want[u] ELSE tbl[u]]
  /\ mStatus' = [u \in Trans |-> IF u = t THEN status ELSE IF u \in W THEN "BEGIN" ELSE mStatus[u]]
  /\ mIndex' = [u \in Trans |-> IF u = t THEN row
                                ELSE [v \in Trans |-> IF \/ u \in W /\ v \in chain[u]
                                                         \/ u \in ToSet(queue) /\ v = t
                                                      THEN 0 ELSE mIndex[u][v]]]

LEMMA LeaveFacts ==
  ASSUME queue \in Seq(Trans), IsInjective(queue), NEW t \in Trans, NEW status, NEW row,
         LeaveTable(t, status, row)
  PROVE  \E W \in SUBSET Trans : Left(t, status, row, W)
<1>1. PICK q : q = QueueWithout(t)
  OBVIOUS
<1>2. PICK h : h = [tbl EXCEPT ![t] = "N"]
  OBVIOUS
<1>3. /\ q \in Seq(Trans) /\ IsInjective(q) /\ ToSet(q) = ToSet(queue) \ {t}
      /\ \A k, l \in DOMAIN q : k < l => Ahead(q[k], q[l])
  BY <1>1, QueueLess
<1>4. PICK n \in 0 .. Len(q) : GrantedHeads(q, h) = 1 .. n
  BY <1>3, GrantedFirst
<1>5. Cardinality(1 .. n) = n
  BY <1>4, FS_Interval
<1> DEFINE rest == SubSeq(q, n + 1, Len(q))
           W == {q[k] : k \in 1 .. n}
<1>6. /\ rest \in Seq(Trans) /\ IsInjective(rest)
      /\ W \subseteq ToSet(q) /\ ToSet(rest) = ToSet(q) \ W
      /\ \A u \in W, v \in ToSet(rest) : \E k, l \in DOMAIN q : k < l /\ q[k] = u /\ q[l] = v
      /\ \A k, l \in DOMAIN rest : k < l =>
           \E i, j \in DOMAIN q : i < j /\ q[i] = rest[k] /\ q[j] = rest[l]
  BY <1>3, QueueSplit
<1>7. /\ queue' = rest
      /\ tbl' = [u \in Trans |-> IF u = t THEN "N" ELSE IF u \in W THEN want[u] ELSE tbl[u]]
      /\ mStatus' = [u \in Trans |-> IF u = t THEN status ELSE IF u \in W THEN "BEGIN" ELSE mStatus[u]]
      /\ mIndex' = [u \in Trans |-> IF u = t THEN row
                                    ELSE [v \in Trans |-> IF \/ u \in W /\ v \in chain[u]
                                                             \/ u \in ToSet(q) /\ v = t
                                                          THEN 0 ELSE mIndex[u][v]]]
  <2>1. PICK X : X = GrantedHeads(q, h)
    OBVIOUS
  <2>2. X = 1 .. n /\ Cardinality(X) = n
    BY <2>1, <1>4, <1>5
  <2>3. /\ queue' = SubSeq(q, Cardinality(X) + 1, Len(q))
        /\ tbl' = [u \in Trans |-> IF u = t THEN "N" ELSE IF u \in {q[k] : k \in X} THEN want[u] ELSE tbl[u]]
        /\ mStatus' = [u \in Trans |-> IF u = t THEN status
                                       ELSE IF u \in {q[k] : k \in X} THEN "BEGIN" ELSE mStatus[u]]
        /\ mIndex' = [u \in Trans |-> IF u = t THEN row
                                      ELSE [v \in Trans |-> IF \/ u \in {q[k] : k \in X} /\ v \in chain[u]
                                                               \/ u \in ToSet(q) /\ v = t
                                                            THEN 0 ELSE mIndex[u][v]]]
    BY <1>1, <1>2, <2>1 DEF LeaveTable
  <2> QED BY <2>2, <2>3
<1> HIDE DEF rest, W
<1>8. ASSUME NEW u \in Trans, NEW v \in ToSet(queue'), u \in W \/ Ahead(u, v)' PROVE Ahead(u, v)
  <2>1. CASE u \in W
    BY <2>1, <1>3, <1>6, <1>7
  <2>2. CASE Ahead(u, v)'
    <3>1. PICK k, l \in DOMAIN rest : k < l /\ rest[k] = u /\ rest[l] = v
      BY <2>2, <1>7 DEF Ahead
    <3>2. PICK i, j \in DOMAIN q : i < j /\ q[i] = rest[k] /\ q[j] = rest[l]
      BY <3>1, <1>6
    <3> QED BY <3>1, <3>2, <1>3
  <2> QED BY <1>8, <2>1, <2>2
<1>9. \A u \in Trans : u # t => (u \in ToSet(q) <=> u \in ToSet(queue))
  BY <1>3
<1>10. W \in SUBSET Trans
  <2>1. ToSet(q) \in SUBSET Trans
    BY <1>3 DEF ToSet
  <2> QED BY <2>1, <1>6
<1>11. mIndex' = [u \in Trans |-> IF u = t THEN row
                                  ELSE [v \in Trans |-> IF \/ u \in W /\ v \in chain[u]
                                                           \/ u \in ToSet(queue) /\ v = t
                                                        THEN 0 ELSE mIndex[u][v]]]
  BY <1>7, <1>9
<1>12. Left(t, status, row, W)
  BY <1>3, <1>6, <1>7, <1>8, <1>11 DEF Left
<1> QED BY <1>10, <1>12

-----------------------------------------------------------------------------
(* Types.                                                                  *)

\* isCycle never runs out of lengths: each length but the first has added a column, and
\* none is the thread's own.
LEMMA CheckRoom ==
  ASSUME WInv, NEW t \in Trans, pc[t] = "check"
  PROVE  /\ path[t].len \in Nat \ {0} /\ path[t].len + 1 <= Cardinality(Trans)
         /\ path[t].more => path[t].len + 1 < Cardinality(Trans)
<1>1. /\ t \notin chain[t] /\ chain[t] \in SUBSET Trans /\ path[t].len # 0
      /\ path[t].len \in 0 .. Cardinality(Trans) /\ path[t].more \in BOOLEAN
      /\ (IF path[t].more THEN path[t].len + 1 ELSE path[t].len) <= Cardinality(chain[t])
  BY DEF WInv, TypeOK, ChainInv
<1>2. PICK C : C = chain[t]
  OBVIOUS
<1>3. /\ C \in SUBSET Trans /\ C \cup {t} \in SUBSET Trans /\ IsFiniteSet(C) /\ t \notin C
  BY <1>1, <1>2, FS_Subset, WaitConstAssumption
<1>4. Cardinality(C \cup {t}) = Cardinality(C) + 1 /\ Cardinality(C) \in Nat
  BY <1>3, FS_AddElement, FS_CardinalityType
<1>5. Cardinality(C \cup {t}) <= Cardinality(Trans) /\ Cardinality(Trans) \in Nat
  BY <1>3, FS_Subset, FS_CardinalityType, WaitConstAssumption
<1> QED BY <1>1, <1>2, <1>4, <1>5

LEMMA TypeStep ==
  ASSUME WInv, [Next]_vars
  PROVE  TypeOK'
<1> USE WaitConstAssumption
<1>0. TypeOK /\ ItemInv
  BY DEF WInv
<1>c. Cardinality(Trans) \in Nat
  BY FS_CardinalityType
<1>1. CASE UNCHANGED vars
  BY <1>0, <1>1 DEF TypeOK, vars, txVars, tableVars
<1> SUFFICES ASSUME NEW t \in Trans, Call(t) \/ Step(t) PROVE TypeOK'
  BY <1>1 DEF Next
<1>d. Trans # {} /\ 1 \in 0 .. Cardinality(Trans) /\ 0 \in 0 .. Cardinality(Trans)
  BY <1>c, FS_EmptySet
\* What the actions do to a row of the wait-for table, and on the way back.
<1>2. ASSUME ClearRow(t)
      PROVE  mIndex' \in [Trans -> [Trans -> 0 .. Cardinality(Trans)]] /\ chain' \in [Trans -> SUBSET Trans]
  <2>1. [u \in Trans |-> IF u \in chain[t] THEN 0 ELSE mIndex[t][u]] \in [Trans -> 0 .. Cardinality(Trans)]
    BY <1>0, <1>d DEF TypeOK
  <2>2. mIndex' = [mIndex EXCEPT ![t] = [u \in Trans |-> IF u \in chain[t] THEN 0 ELSE mIndex[t][u]]]
    BY <1>2 DEF ClearRow
  <2> QED BY <2>1, <2>2, <1>0, <1>2 DEF TypeOK, ClearRow
<1>3. ASSUME NEW to \in {"row", "run"}, Back(t, to)
      PROVE  /\ mStatus' \in [Trans -> {"BEGIN", "BLOCKED", "COMMIT", "END"}]
             /\ want' \in [Trans -> Rows \cup TableMode \cup {Nothing}]
             /\ target' \in [Trans -> [slot : Trans \cup {NoTrans}, tid : 0 .. TidCycle - 1]]
             /\ path' \in [Trans -> [len : 0 .. Cardinality(Trans), todo : SUBSET Trans, more : BOOLEAN]]
             /\ pc' \in [Trans -> PC]
  <2>1. NoTarget \in [slot : Trans \cup {NoTrans}, tid : 0 .. TidCycle - 1]
    BY DEF NoTarget
  <2>2. NoPath \in [len : 0 .. Cardinality(Trans), todo : SUBSET Trans, more : BOOLEAN]
    BY <1>d DEF NoPath
  <2>3. to \in PC
    BY DEF PC
  <2> QED BY <2>1, <2>2, <2>3, <1>0, <1>3 DEF TypeOK, Back, GoTo
<1>4. CASE TargetGone(t)
  BY <1>4, <1>2, <1>3, <1>0 DEF TypeOK, TargetGone, txVars, tableVars
<1>5. CASE Woken(t)
  BY <1>5, <1>2, <1>3, <1>0 DEF TypeOK, Woken, txVars, tableVars
<1>6. CASE EventBeforeWait(t)
  BY <1>6, <1>3, <1>0 DEF TypeOK, EventBeforeWait, txVars, tableVars
<1>7. CASE GiveUpRow(t)
  BY <1>7, <1>2, <1>3, <1>0 DEF TypeOK, GiveUpRow, txVars, tableVars
<1>8. CASE Begin(t) \/ TimeOut(t) \/ SessionEvent(t)
  <2>1. CASE Begin(t)
    BY <2>1, <1>0 DEF TypeOK, Begin, GoTo, PC, txVars, tableVars
  <2>2. CASE TimeOut(t) \/ SessionEvent(t)
    <3>1. pc' = [pc EXCEPT ![t] = "giveUp"]
      BY <2>2 DEF TimeOut, SessionEvent, GoTo
    <3>2. UNCHANGED <<txVars, mStatus, mIndex, chain, recList, tableVars, want, target, path, cur>>
      BY <2>2 DEF TimeOut, SessionEvent
    <3> QED BY <3>1, <3>2, <1>0 DEF TypeOK, PC, txVars, tableVars
  <2> QED BY <1>8, <2>1, <2>2
<1>9. ASSUME NEW r \in Rows, TakeRow(t, r) \/ MeetRow(t, r) PROVE TypeOK'
  <2>1. CASE TakeRow(t, r)
    BY <2>1, <1>0 DEF TypeOK, TakeRow, GoTo, PC, txVars, tableVars
  <2>2. CASE MeetRow(t, r)
    <3>1. [slot |-> owner[r], tid |-> mTransID[owner[r]]] \in [slot : Trans \cup {NoTrans}, tid : 0 .. TidCycle - 1]
      BY <2>2, <1>0 DEF TypeOK, MeetRow
    <3> QED BY <3>1, <2>2, <1>0 DEF TypeOK, MeetRow, GoTo, PC, txVars, tableVars
  <2> QED BY <1>9, <2>1, <2>2
<1>10. CASE Register(t)
  <2> DEFINE h == target[t].slot
  <2>1. h \in Trans
    BY <1>10 DEF WInv, ThreadInv, Register
  <2>2. Linked(t, h) \in Seq(Trans)
    BY <2>1, <1>0, AppendProperties DEF Linked, TypeOK
  <2>3. /\ [mIndex[t] EXCEPT ![h] = 1] \in [Trans -> 0 .. Cardinality(Trans)]
        /\ mIndex' = [mIndex EXCEPT ![t] = [mIndex[t] EXCEPT ![h] = 1]]
    BY <2>1, <1>10, <1>0, <1>d DEF TypeOK, Register
  <2>4. mIndex' \in [Trans -> [Trans -> 0 .. Cardinality(Trans)]]
    BY <2>3, <1>0 DEF TypeOK
  <2>5. recList' \in [Trans -> Seq(Trans)] /\ chain' \in [Trans -> SUBSET Trans]
    BY <2>1, <2>2, <1>10, <1>0 DEF TypeOK, Register
  <2> QED BY <2>4, <2>5, <1>10, <1>0 DEF TypeOK, Register, GoTo, PC, txVars, tableVars
<1>11. ASSUME NEW m \in AskedTable, GrantTable(t, m) \/ WaitTable(t, m) PROVE TypeOK'
  <2>1. CASE GrantTable(t, m)
    BY <2>1, <1>0 DEF TypeOK, GrantTable, txVars, tableVars
  <2>2. CASE WaitTable(t, m)
    <3> DEFINE ahead == ToSet(queue) \cup {u \in Trans : tbl[u] # "N"}
    <3>1. ahead \in SUBSET Trans
      BY <1>0 DEF TypeOK, ToSet
    <3>2. Append(queue, t) \in Seq(Trans)
      BY <1>0, AppendProperties DEF TypeOK
    <3>3. /\ [u \in Trans |-> IF u \in ahead THEN 1 ELSE mIndex[t][u]] \in [Trans -> 0 .. Cardinality(Trans)]
          /\ mIndex' = [mIndex EXCEPT ![t] = [u \in Trans |-> IF u \in ahead THEN 1 ELSE mIndex[t][u]]]
      BY <2>2, <1>0, <1>d DEF TypeOK, WaitTable
    <3>4. mIndex' \in [Trans -> [Trans -> 0 .. Cardinality(Trans)]]
      BY <3>3, <1>0 DEF TypeOK
    <3>5. chain' \in [Trans -> SUBSET Trans]
      BY <3>1, <2>2, <1>0 DEF TypeOK, WaitTable
    <3> QED BY <3>2, <3>4, <3>5, <2>2, <1>0 DEF TypeOK, WaitTable, GoTo, PC, txVars, tableVars
  <2> QED BY <1>11, <2>1, <2>2
<1>12. CASE StartCheck(t)
  <2>1. [len |-> 1, todo |-> chain[t], more |-> FALSE]
          \in [len : 0 .. Cardinality(Trans), todo : SUBSET Trans, more : BOOLEAN]
    BY <1>0, <1>d DEF TypeOK
  <2> QED BY <2>1, <1>12, <1>0 DEF TypeOK, StartCheck, GoTo, PC, txVars, tableVars
<1>13. ASSUME NEW i \in Trans, VisitRow(t, i) PROVE TypeOK'
  <2> DEFINE new == IF mIndex[t][i] = path[t].len THEN Reached(t, i) ELSE {}
  <2>1. path[t].len \in Nat /\ path[t].len + 1 \in 0 .. Cardinality(Trans)
    BY <1>13, <1>c, CheckRoom DEF VisitRow
  <2>2. new \in SUBSET Trans
    BY <1>0 DEF TypeOK, Reached
  <2>3. /\ [u \in Trans |-> IF u \in new THEN path[t].len + 1 ELSE mIndex[t][u]] \in [Trans -> 0 .. Cardinality(Trans)]
        /\ mIndex' = [mIndex EXCEPT ![t] = [u \in Trans |-> IF u \in new THEN path[t].len + 1 ELSE mIndex[t][u]]]
    BY <2>1, <1>13, <1>0 DEF TypeOK, VisitRow
  <2>4. mIndex' \in [Trans -> [Trans -> 0 .. Cardinality(Trans)]] /\ chain' \in [Trans -> SUBSET Trans]
    <3>1. chain' = [chain EXCEPT ![t] = chain[t] \cup new]
      BY <1>13, <1>0 DEF TypeOK, VisitRow
    <3> HIDE DEF new
    <3>2. chain' \in [Trans -> SUBSET Trans]
      BY <3>1, <2>2, <1>0 DEF TypeOK
    <3>3. mIndex' \in [Trans -> [Trans -> 0 .. Cardinality(Trans)]]
      BY <2>3, <1>0 DEF TypeOK
    <3> QED BY <3>2, <3>3
  <2>5. NoPath \in [len : 0 .. Cardinality(Trans), todo : SUBSET Trans, more : BOOLEAN]
    BY <1>d DEF NoPath
  <2>6. path' \in [Trans -> [len : 0 .. Cardinality(Trans), todo : SUBSET Trans, more : BOOLEAN]] /\ pc' \in [Trans -> PC]
    <3>1. CASE t \in new
      <4>1. path' = [path EXCEPT ![t] = NoPath] /\ pc' = [pc EXCEPT ![t] = "giveUp"]
        BY <3>1, <1>13 DEF VisitRow, GoTo
      <4> QED BY <4>1, <2>5, <1>0 DEF TypeOK, PC
    <3>2. CASE t \notin new
      <4>1. PICK b \in BOOLEAN : b = (path[t].more \/ new # {})
        OBVIOUS
      <4>a. PICK p \in [len : 0 .. Cardinality(Trans), todo : SUBSET Trans, more : BOOLEAN] : p = path[t]
        BY <1>0 DEF TypeOK
      <4>2. path' = [path EXCEPT ![t] = [p EXCEPT !.todo = p.todo \ {i}, !.more = b]] /\ pc' = pc
        BY <4>1, <4>a, <3>2, <1>13, <1>0 DEF TypeOK, VisitRow
      <4>3. [p EXCEPT !.todo = p.todo \ {i}, !.more = b]
               \in [len : 0 .. Cardinality(Trans), todo : SUBSET Trans, more : BOOLEAN]
        OBVIOUS
      <4> QED BY <4>2, <4>3, <1>0 DEF TypeOK
    <3> QED BY <3>1, <3>2
  <2> HIDE DEF new
  <2>7. UNCHANGED <<txVars, mStatus, recList, tableVars, want, target, cur>>
    BY <1>13 DEF VisitRow
  <2> QED BY <2>4, <2>6, <2>7, <1>0 DEF TypeOK, txVars, tableVars
<1>14. CASE EndPass(t)
  <2>1. path' \in [Trans -> [len : 0 .. Cardinality(Trans), todo : SUBSET Trans, more : BOOLEAN]]
    <3>1. CASE path[t].more /\ path[t].len + 1 < Cardinality(Trans)
      <4>1. [len |-> path[t].len + 1, todo |-> chain[t], more |-> FALSE]
              \in [len : 0 .. Cardinality(Trans), todo : SUBSET Trans, more : BOOLEAN]
        BY <3>1, <1>c, <1>0 DEF TypeOK
      <4>2. path' = [path EXCEPT ![t] = [len |-> path[t].len + 1, todo |-> chain[t], more |-> FALSE]]
        BY <3>1, <1>14, <1>0 DEF TypeOK, EndPass
      <4> QED BY <4>1, <4>2, <1>0 DEF TypeOK
    <3>2. CASE ~(path[t].more /\ path[t].len + 1 < Cardinality(Trans))
      <4>1. NoPath \in [len : 0 .. Cardinality(Trans), todo : SUBSET Trans, more : BOOLEAN]
        BY <1>d DEF NoPath
      <4> QED BY <4>1, <3>2, <1>14, <1>0 DEF TypeOK, EndPass
    <3> QED BY <3>1, <3>2
  <2>2. pc' \in [Trans -> PC]
    <3>1. pc' = pc \/ pc' = [pc EXCEPT ![t] = "suspended2"]
      BY <1>14 DEF EndPass, GoTo
    <3> QED BY <3>1, <1>0 DEF TypeOK, PC
  <2>3. UNCHANGED <<txVars, mStatus, mIndex, chain, recList, tableVars, want, target, cur>>
    BY <1>14 DEF EndPass
  <2> QED BY <2>1, <2>2, <2>3, <1>0 DEF TypeOK, txVars, tableVars
<1>15. ASSUME NEW status \in {"BEGIN", "COMMIT"}, NEW row \in [Trans -> 0 .. Cardinality(Trans)],
              LeaveTable(t, status, row)
       PROVE  /\ queue' \in Seq(Trans) /\ tbl' \in [Trans -> TableMode \cup {"N"}]
              /\ mStatus' \in [Trans -> {"BEGIN", "BLOCKED", "COMMIT", "END"}]
              /\ mIndex' \in [Trans -> [Trans -> 0 .. Cardinality(Trans)]]
  <2>1. PICK W \in SUBSET Trans : Left(t, status, row, W)
    BY <1>0, <1>15, LeaveFacts DEF TypeOK, ItemInv
  <2>2. \A u \in W : want[u] \in TableMode
    BY <2>1 DEF Left, WInv, TableInv, ForTable
  <2>3. queue' \in Seq(Trans) /\ tbl' \in [Trans -> TableMode \cup {"N"}]
    BY <2>1, <2>2, <1>0 DEF Left, TypeOK
  <2>4. mStatus' \in [Trans -> {"BEGIN", "BLOCKED", "COMMIT", "END"}]
    BY <2>1, <1>0 DEF Left, TypeOK
  <2>5. ASSUME NEW u \in Trans
        PROVE  [v \in Trans |-> IF \/ u \in W /\ v \in chain[u]
                                   \/ u \in ToSet(queue) /\ v = t
                                THEN 0 ELSE mIndex[u][v]] \in [Trans -> 0 .. Cardinality(Trans)]
    BY <1>0, <1>d DEF TypeOK
  <2>6. mIndex' \in [Trans -> [Trans -> 0 .. Cardinality(Trans)]]
    BY <2>1, <2>5 DEF Left
  <2> QED BY <2>3, <2>4, <2>6
<1>16. CASE GiveUpTable(t)
  <2> DEFINE row == [u \in Trans |-> IF u \in chain[t] THEN 0 ELSE mIndex[t][u]]
  <2>1. row \in [Trans -> 0 .. Cardinality(Trans)]
    BY <1>0, <1>d DEF TypeOK
  <2>2. LeaveTable(t, "BEGIN", row)
    BY <1>16 DEF GiveUpTable
  <2> HIDE DEF row
  <2>3. /\ queue' \in Seq(Trans) /\ tbl' \in [Trans -> TableMode \cup {"N"}]
        /\ mStatus' \in [Trans -> {"BEGIN", "BLOCKED", "COMMIT", "END"}]
        /\ mIndex' \in [Trans -> [Trans -> 0 .. Cardinality(Trans)]]
    BY <2>1, <2>2, <1>15
  <2>4. NoPath \in [len : 0 .. Cardinality(Trans), todo : SUBSET Trans, more : BOOLEAN]
    BY <1>d DEF NoPath
  <2>5. /\ chain' = [chain EXCEPT ![t] = {}] /\ want' = [want EXCEPT ![t] = Nothing]
        /\ path' = [path EXCEPT ![t] = NoPath] /\ pc' = [pc EXCEPT ![t] = "run"]
        /\ UNCHANGED <<txVars, recList, target, cur>>
    BY <1>16 DEF GiveUpTable, GoTo
  <2> QED BY <2>3, <2>4, <2>5, <1>0 DEF TypeOK, PC, txVars
<1>17. CASE FreeItems(t)
  <2>1. pc' = [pc EXCEPT ![t] = "free"] /\ UNCHANGED <<txVars, chain, recList, want, target, path, cur>>
    BY <1>17 DEF FreeItems, GoTo
  <2>2. CASE UNCHANGED <<tableVars, mStatus, mIndex>>
    BY <2>1, <2>2, <1>0 DEF TypeOK, PC, txVars, tableVars
  <2>3. CASE LeaveTable(t, "COMMIT", mIndex[t])
    <3>1. mIndex[t] \in [Trans -> 0 .. Cardinality(Trans)]
      BY <1>0 DEF TypeOK
    <3>2. PICK row : row = mIndex[t]
      OBVIOUS
    <3>3. /\ queue' \in Seq(Trans) /\ tbl' \in [Trans -> TableMode \cup {"N"}]
          /\ mStatus' \in [Trans -> {"BEGIN", "BLOCKED", "COMMIT", "END"}]
          /\ mIndex' \in [Trans -> [Trans -> 0 .. Cardinality(Trans)]]
      BY <3>1, <3>2, <2>3, <1>15
    <3> QED BY <3>3, <2>1, <1>0 DEF TypeOK, PC, txVars
  <2> QED BY <2>2, <2>3, <1>17 DEF FreeItems
<1>18. ASSUME NEW open \in BOOLEAN, Commit(t, open) PROVE TypeOK'
  <2>1. owner' \in [Rows -> Trans \cup {NoTrans}]
    BY <1>18, <1>0 DEF TypeOK, Commit
  <2>2. legacy' \in [Trans -> SUBSET (0 .. TidCycle - 1)]
    BY <1>18, <1>0 DEF TypeOK, Commit
  <2> QED BY <2>1, <2>2, <1>18, <1>0 DEF TypeOK, Commit, GoTo, PC, tableVars
<1>19. CASE FreeNext(t)
  <2>1. Head(recList[t]) \in Trans /\ Tail(recList[t]) \in Seq(Trans)
    BY <1>19, <1>0, HeadTailProperties DEF TypeOK, FreeNext
  <2>2. PICK w \in Trans : w = Head(recList[t])
    BY <2>1
  <2>3. recList' \in [Trans -> Seq(Trans)]
    BY <2>1, <1>19, <1>0 DEF TypeOK, FreeNext
  <2>4. CASE mIndex[w][t] = 1
    <3>1. /\ mStatus' = [mStatus EXCEPT ![w] = IF mStatus[w] = "BLOCKED" THEN "BEGIN" ELSE mStatus[w]]
          /\ cur' = [cur EXCEPT ![t] = w] /\ pc' = [pc EXCEPT ![t] = "resumed"] /\ mIndex' = mIndex
          /\ UNCHANGED <<txVars, chain, tableVars, want, target, path>>
      BY <2>2, <2>4, <1>19, <1>0 DEF TypeOK, FreeNext, GoTo
    <3> QED BY <3>1, <2>3, <1>0 DEF TypeOK, PC, txVars, tableVars
  <2>5. CASE mIndex[w][t] # 1
    <3>1. [mIndex[w] EXCEPT ![t] = 0] \in [Trans -> 0 .. Cardinality(Trans)]
      BY <1>0, <1>d DEF TypeOK
    <3>2. mIndex' = [mIndex EXCEPT ![w] = [mIndex[w] EXCEPT ![t] = 0]]
      BY <2>2, <2>5, <1>19, <1>0 DEF TypeOK, FreeNext
    <3>3. mIndex' \in [Trans -> [Trans -> 0 .. Cardinality(Trans)]]
      BY <3>1, <3>2, <1>0 DEF TypeOK
    <3>4. UNCHANGED <<mStatus, cur, pc>> /\ UNCHANGED <<txVars, chain, tableVars, want, target, path>>
      BY <2>2, <2>5, <1>19 DEF FreeNext
    <3> QED BY <3>3, <3>4, <2>3, <1>0 DEF TypeOK, txVars, tableVars
  <2> QED BY <2>4, <2>5
<1>20. CASE FreeColumn(t)
  <2>1. PICK w \in Trans : w = cur[t]
    BY <1>20 DEF WInv, ThreadInv, FreeColumn
  <2>2. [mIndex[w] EXCEPT ![t] = 0] \in [Trans -> 0 .. Cardinality(Trans)]
    BY <1>0, <1>d DEF TypeOK
  <2>3. mIndex' = [mIndex EXCEPT ![w] = [mIndex[w] EXCEPT ![t] = 0]]
    BY <2>1, <1>20, <1>0 DEF TypeOK, FreeColumn
  <2>4. mIndex' \in [Trans -> [Trans -> 0 .. Cardinality(Trans)]]
    BY <2>2, <2>3, <1>0 DEF TypeOK
  <2> QED BY <2>4, <1>20, <1>0 DEF TypeOK, FreeColumn, GoTo, PC, txVars, tableVars
<1>21. CASE EndDone(t)
  <2>1. (mTransID[t] + 1) % TidCycle \in 0 .. TidCycle - 1
    BY <1>0 DEF TypeOK
  <2>2. mTransID' \in [Trans -> 0 .. TidCycle - 1]
    BY <2>1, <1>21, <1>0 DEF TypeOK, EndDone
  <2> QED BY <2>2, <1>21, <1>0 DEF TypeOK, EndDone, GoTo, PC, txVars, tableVars
<1>22. ASSUME NEW tid \in legacy[t], CloseLegacy(t, tid) PROVE TypeOK'
  <2>1. legacy' \in [Trans -> SUBSET (0 .. TidCycle - 1)]
    BY <1>22, <1>0 DEF TypeOK, CloseLegacy
  <2> QED BY <2>1, <1>22, <1>0 DEF TypeOK, CloseLegacy, tableVars
<1> QED
  BY <1>4, <1>5, <1>6, <1>7, <1>8, <1>9, <1>10, <1>11, <1>12, <1>13, <1>14, <1>16, <1>17, <1>18, <1>19, <1>20,
     <1>21, <1>22 DEF Call, Step

-----------------------------------------------------------------------------
(* What a step leaves alone.                                               *)

\* Outside a wait the row of the wait-for table is empty.
LEMMA OutsideClean ==
  ASSUME WInv, NEW t \in Trans, ~ InWait(t)
  PROVE  chain[t] = {} /\ \A u \in Trans : mIndex[t][u] = 0
BY DEF WInv, ChainInv

\* Who is in the queue waits for the table.
LEMMA QueuedWaits ==
  ASSUME WInv, NEW t \in Trans
  PROVE  /\ t \in ToSet(queue) => ForTable(t) /\ Blocked(t) /\ InWait(t) /\ want[t] \in TableMode
         /\ ForRow(t) => ~ ForTable(t)
         /\ want[t] = Nothing => ~ ForTable(t) /\ ~ ForRow(t)
BY WaitConstAssumption DEF WInv, TableInv, ThreadInv, ForTable, ForRow

\* The other threads go on where they were; another's step blocks nobody, sets no
\* column for him and gives him no row.
LEMMA Frame ==
  ASSUME WInv, NEW t \in Trans, Call(t) \/ Step(t), NEW r \in Trans \ {t}
  PROVE  /\ pc'[r] = pc[r] /\ want'[r] = want[r] /\ target'[r] = target[r] /\ path'[r] = path[r]
         /\ cur'[r] = cur[r] /\ chain'[r] = chain[r] /\ legacy'[r] = legacy[r]
         /\ mTransID'[r] = mTransID[r]
         /\ Blocked(r)' => Blocked(r)
         /\ mStatus'[r] = "END" => mStatus[r] = "END"
         /\ tbl'[r] = tbl[r] \/ r \in ToSet(queue)
         /\ \A u \in Trans : mIndex'[r][u] = mIndex[r][u] \/ mIndex'[r][u] = 0
         /\ \A x \in Rows : owner'[x] = r => owner[x] = r
<1>0. TypeOK /\ ItemInv
  BY DEF WInv
<1> DEFINE Kept == /\ pc'[r] = pc[r] /\ want'[r] = want[r] /\ target'[r] = target[r] /\ path'[r] = path[r]
                   /\ cur'[r] = cur[r] /\ chain'[r] = chain[r] /\ legacy'[r] = legacy[r]
                   /\ mTransID'[r] = mTransID[r]
                   /\ \A x \in Rows : owner'[x] = r => owner[x] = r
           Same == mStatus'[r] = mStatus[r] /\ tbl'[r] = tbl[r] /\ mIndex'[r] = mIndex[r]
<1>1. SUFFICES ASSUME TRUE
               PROVE  /\ Kept
                      /\ mStatus'[r] = mStatus[r] \/ mStatus'[r] = "BEGIN"
                      /\ tbl'[r] = tbl[r] \/ r \in ToSet(queue)
                      /\ \A u \in Trans : mIndex'[r][u] = mIndex[r][u] \/ mIndex'[r][u] = 0
  BY DEF Blocked
<1>2. CASE Begin(t) \/ TimeOut(t) \/ SessionEvent(t) \/ EventBeforeWait(t)
  <2>1. Kept
    BY <1>2, <1>0 DEF TypeOK, Begin, TimeOut, SessionEvent, EventBeforeWait, Back, GoTo, txVars, tableVars
  <2>2. Same
    BY <1>2, <1>0 DEF TypeOK, Begin, TimeOut, SessionEvent, EventBeforeWait, Back, GoTo, txVars, tableVars
  <2> QED BY <2>1, <2>2
<1>3. CASE TargetGone(t) \/ Woken(t) \/ GiveUpRow(t)
  <2>1. ClearRow(t) /\ UNCHANGED <<txVars, recList, tableVars, cur>> /\ \E to : Back(t, to)
    BY <1>3 DEF TargetGone, Woken, GiveUpRow
  <2>2. Kept
    BY <2>1, <1>0 DEF TypeOK, ClearRow, Back, GoTo, txVars, tableVars
  <2>3. Same
    BY <2>1, <1>0 DEF TypeOK, ClearRow, Back, GoTo, txVars, tableVars
  <2> QED BY <2>2, <2>3
<1>4. ASSUME NEW x \in Rows, TakeRow(t, x) \/ MeetRow(t, x) PROVE Kept /\ Same
  <2>1. CASE TakeRow(t, x)
    BY <2>1, <1>0 DEF TypeOK, TakeRow, GoTo, txVars, tableVars
  <2>2. CASE MeetRow(t, x)
    BY <2>2, <1>0 DEF TypeOK, MeetRow, GoTo, txVars, tableVars
  <2> QED BY <1>4, <2>1, <2>2
<1>5. CASE Register(t)
  BY <1>5, <1>0 DEF TypeOK, Register, GoTo, txVars, tableVars
<1>6. ASSUME NEW m \in AskedTable, GrantTable(t, m) \/ WaitTable(t, m) PROVE Kept /\ Same
  <2>1. CASE GrantTable(t, m)
    BY <2>1, <1>0 DEF TypeOK, GrantTable, txVars, tableVars
  <2>2. CASE WaitTable(t, m)
    BY <2>2, <1>0 DEF TypeOK, WaitTable, GoTo, txVars, tableVars
  <2> QED BY <1>6, <2>1, <2>2
<1>7. CASE StartCheck(t) \/ EndPass(t)
  <2>1. /\ UNCHANGED <<txVars, mStatus, mIndex, chain, recList, tableVars, want, target, cur>>
        /\ path'[r] = path[r] /\ pc'[r] = pc[r]
    BY <1>7, <1>0 DEF TypeOK, StartCheck, EndPass, GoTo
  <2> QED BY <2>1 DEF txVars, tableVars
<1>8. ASSUME NEW i \in Trans, VisitRow(t, i) PROVE Kept /\ Same
  <2>1. /\ UNCHANGED <<txVars, mStatus, recList, tableVars, want, target, cur>>
        /\ path'[r] = path[r] /\ pc'[r] = pc[r]
    BY <1>8, <1>0 DEF TypeOK, VisitRow, GoTo
  <2>2. mIndex'[r] = mIndex[r] /\ chain'[r] = chain[r]
    BY <1>8, <1>0 DEF TypeOK, VisitRow
  <2> QED BY <2>1, <2>2 DEF txVars, tableVars
<1>9. ASSUME NEW status, NEW row, LeaveTable(t, status, row)
      PROVE  /\ mStatus'[r] = mStatus[r] \/ mStatus'[r] = "BEGIN"
             /\ tbl'[r] = tbl[r] \/ r \in ToSet(queue)
             /\ \A u \in Trans : mIndex'[r][u] = mIndex[r][u] \/ mIndex'[r][u] = 0
  <2>1. PICK W \in SUBSET Trans : Left(t, status, row, W)
    BY <1>0, <1>9, LeaveFacts DEF TypeOK, ItemInv
  <2>2. W \subseteq ToSet(queue)
    BY <2>1 DEF Left
  <2>3. mStatus'[r] = mStatus[r] \/ mStatus'[r] = "BEGIN"
    BY <2>1 DEF Left
  <2>4. tbl'[r] = tbl[r] \/ r \in ToSet(queue)
    BY <2>1, <2>2 DEF Left
  <2>5. \A u \in Trans : mIndex'[r][u] = mIndex[r][u] \/ mIndex'[r][u] = 0
    BY <2>1 DEF Left
  <2> QED BY <2>3, <2>4, <2>5
<1>10. CASE GiveUpTable(t)
  <2>1. LeaveTable(t, "BEGIN", [u \in Trans |-> IF u \in chain[t] THEN 0 ELSE mIndex[t][u]])
    BY <1>10 DEF GiveUpTable
  <2>2. PICK row : row = [u \in Trans |-> IF u \in chain[t] THEN 0 ELSE mIndex[t][u]]
    OBVIOUS
  <2>3. Kept
    BY <1>10, <1>0 DEF TypeOK, GiveUpTable, GoTo, txVars
  <2> QED BY <2>1, <2>2, <2>3, <1>9
<1>11. CASE FreeItems(t)
  <2>1. Kept
    BY <1>11, <1>0 DEF TypeOK, FreeItems, GoTo, txVars
  <2>2. CASE UNCHANGED <<tableVars, mStatus, mIndex>>
    BY <2>1, <2>2 DEF tableVars
  <2>3. CASE LeaveTable(t, "COMMIT", mIndex[t])
    <3>1. PICK row : row = mIndex[t]
      OBVIOUS
    <3> QED BY <3>1, <2>1, <2>3, <1>9
  <2> QED BY <2>2, <2>3, <1>11 DEF FreeItems
<1>12. ASSUME NEW open \in BOOLEAN, Commit(t, open) PROVE Kept /\ Same
  <2>1. Kept
    BY <1>12, <1>0, WaitConstAssumption DEF TypeOK, Commit, GoTo, tableVars
  <2>2. Same
    BY <1>12, <1>0 DEF TypeOK, Commit, tableVars
  <2> QED BY <2>1, <2>2
<1>13. CASE FreeNext(t)
  <2>1. PICK w : w = Head(recList[t])
    OBVIOUS
  <2>2. CASE mIndex[w][t] = 1
    <3>1. /\ mStatus' = [mStatus EXCEPT ![w] = IF mStatus[w] = "BLOCKED" THEN "BEGIN" ELSE mStatus[w]]
          /\ cur' = [cur EXCEPT ![t] = w] /\ pc' = [pc EXCEPT ![t] = "resumed"] /\ mIndex' = mIndex
          /\ UNCHANGED <<txVars, chain, tableVars, want, target, path>>
      BY <2>1, <2>2, <1>13, <1>0 DEF TypeOK, FreeNext, GoTo
    <3> QED BY <3>1, <1>0 DEF TypeOK, txVars, tableVars
  <2>3. CASE mIndex[w][t] # 1
    <3>1. /\ mIndex' = [mIndex EXCEPT ![w][t] = 0] /\ UNCHANGED <<mStatus, cur, pc>>
          /\ UNCHANGED <<txVars, chain, tableVars, want, target, path>>
      BY <2>1, <2>3, <1>13 DEF FreeNext
    <3>2. \A u \in Trans : mIndex'[r][u] = mIndex[r][u] \/ mIndex'[r][u] = 0
      BY <3>1, <1>0 DEF TypeOK
    <3> QED BY <3>1, <3>2 DEF txVars, tableVars
  <2> QED BY <2>2, <2>3
<1>14. CASE FreeColumn(t)
  <2>1. Kept
    BY <1>14, <1>0 DEF TypeOK, FreeColumn, GoTo, txVars
  <2>2. mIndex' = [mIndex EXCEPT ![cur[t]][t] = 0] /\ mStatus' = mStatus /\ tbl' = tbl
    BY <1>14 DEF FreeColumn, tableVars
  <2>3. \A u \in Trans : mIndex'[r][u] = mIndex[r][u] \/ mIndex'[r][u] = 0
    BY <2>2, <1>0 DEF TypeOK
  <2> QED BY <2>1, <2>2, <2>3
<1>15. CASE EndDone(t)
  BY <1>15, <1>0 DEF TypeOK, EndDone, GoTo, txVars, tableVars
<1>16. ASSUME NEW tid \in legacy[t], CloseLegacy(t, tid) PROVE Kept /\ Same
  BY <1>16, <1>0 DEF TypeOK, CloseLegacy, tableVars
<1> QED
  BY <1>2, <1>3, <1>4, <1>5, <1>6, <1>7, <1>8, <1>10, <1>11, <1>12, <1>13, <1>14, <1>15, <1>16 DEF Call, Step

-----------------------------------------------------------------------------
(* Threads, and the end of transactions.                                   *)

LEMMA ThreadStep ==
  ASSUME WInv, [Next]_vars, NEW r \in Trans
  PROVE  ThreadInv(r)'
<1>0. TypeOK /\ ThreadInv(r) /\ EndInv(r)
  BY DEF WInv
<1>1. CASE UNCHANGED vars
  BY <1>0, <1>1 DEF ThreadInv, ForRow, Blocked, InWait, vars, txVars, tableVars
<1>2. ASSUME NEW t \in Trans \ {r}, Call(t) \/ Step(t) PROVE ThreadInv(r)'
  <2>1. /\ pc'[r] = pc[r] /\ want'[r] = want[r] /\ target'[r] = target[r] /\ cur'[r] = cur[r]
        /\ Blocked(r)' => Blocked(r)
        /\ \A x \in Rows : owner'[x] = r => owner[x] = r
    BY <1>2, Frame
  <2> QED BY <2>1, <1>0 DEF ThreadInv, ForRow, InWait
<1>3. ASSUME Call(r) \/ Step(r) PROVE ThreadInv(r)'
  <2> USE WaitConstAssumption
  <2>1. CASE Begin(r)
    BY <2>1, <1>0 DEF TypeOK, ThreadInv, ForRow, Blocked, InWait, Begin, GoTo, txVars
  <2>2. ASSUME NEW x \in Rows, TakeRow(r, x) PROVE ThreadInv(r)'
    BY <2>2, <1>0 DEF TypeOK, ThreadInv, ForRow, Blocked, InWait, TakeRow, LooksAt, GoTo
  <2>3. ASSUME NEW x \in Rows, MeetRow(r, x) PROVE ThreadInv(r)'
    <3>1. owner[x] \in Trans /\ owner[x] # r
      BY <2>3, <1>0 DEF TypeOK, ThreadInv, ForRow, MeetRow, LooksAt
    <3>2. /\ want'[r] = x /\ pc'[r] = "call" /\ owner' = owner /\ mStatus' = mStatus
          /\ target'[r].slot = owner[x] /\ pc[r] \in {"run", "row"}
      BY <2>3, <1>0 DEF TypeOK, MeetRow, LooksAt, GoTo, txVars
    <3> QED BY <3>1, <3>2, <1>0 DEF ThreadInv, ForRow, Blocked, InWait
  <2>4. CASE TargetGone(r) \/ Woken(r) \/ EventBeforeWait(r) \/ GiveUpRow(r)
    <3>1. PICK to \in {"row", "run"} : Back(r, to) /\ (to = "row" => ForRow(r)) /\ owner' = owner
      BY <2>4, <1>0 DEF TargetGone, Woken, EventBeforeWait, GiveUpRow, ThreadInv, txVars
    <3>2. /\ pc'[r] = to /\ want'[r] = (IF to = "row" THEN want[r] ELSE Nothing) /\ mStatus'[r] = "BEGIN"
      BY <3>1, <1>0 DEF TypeOK, Back, GoTo
    <3> QED BY <3>1, <3>2, <1>0 DEF ThreadInv, ForRow, Blocked, InWait
  <2>5. CASE Register(r)
    BY <2>5, <1>0 DEF TypeOK, ThreadInv, ForRow, Blocked, InWait, Register, GoTo, txVars
  <2>6. ASSUME NEW m \in AskedTable, GrantTable(r, m) \/ WaitTable(r, m) PROVE ThreadInv(r)'
    <3>1. CASE GrantTable(r, m)
      BY <3>1, <1>0 DEF ThreadInv, ForRow, Blocked, InWait, GrantTable, txVars
    <3>2. CASE WaitTable(r, m)
      <4>1. want'[r] = m /\ m \notin Rows /\ m # Nothing /\ pc'[r] = "suspended1"
        BY <3>2, <1>0 DEF TypeOK, WaitTable, GoTo
      <4> QED BY <4>1 DEF ThreadInv, ForRow, InWait
    <3> QED BY <2>6, <3>1, <3>2
  <2>7. CASE StartCheck(r) \/ EndPass(r) \/ (\E i \in Trans : VisitRow(r, i)) \/ TimeOut(r) \/ SessionEvent(r)
    <3>1. UNCHANGED <<mStatus, want, target, cur>> /\ owner' = owner
      BY <2>7 DEF StartCheck, EndPass, VisitRow, TimeOut, SessionEvent, txVars
    <3>2. InWait(r) /\ pc'[r] \in {"check", "suspended2", "giveUp"}
      BY <2>7, <1>0 DEF TypeOK, InWait, Suspended, StartCheck, EndPass, VisitRow, TimeOut, SessionEvent, GoTo
    <3> QED BY <3>1, <3>2, <1>0 DEF ThreadInv, ForRow, Blocked, InWait
  <2>8. CASE GiveUpTable(r)
    <3>1. mStatus'[r] = "BEGIN" /\ want'[r] = Nothing /\ pc'[r] = "run"
      BY <2>8, <1>0 DEF TypeOK, GiveUpTable, LeaveTable, GoTo
    <3> QED BY <3>1 DEF ThreadInv, ForRow, Blocked, InWait
  <2>9. CASE FreeItems(r)
    <3>1. pc'[r] = "free" /\ want' = want /\ pc[r] = "ending"
      BY <2>9, <1>0 DEF TypeOK, FreeItems, GoTo
    <3>2. mStatus'[r] # "BLOCKED"
      BY <2>9, <3>1, <1>0 DEF TypeOK, FreeItems, LeaveTable, ThreadInv, Blocked, InWait
    <3> QED BY <3>1, <3>2, <1>0 DEF ThreadInv, ForRow, Blocked, InWait
  <2>10. ASSUME NEW open \in BOOLEAN, Commit(r, open) PROVE ThreadInv(r)'
    BY <2>10, <1>0 DEF TypeOK, ThreadInv, ForRow, Blocked, InWait, Commit, GoTo
  <2>11. CASE FreeNext(r)
    <3>1. Head(recList[r]) \in Trans
      BY <2>11, <1>0, HeadTailProperties DEF TypeOK, FreeNext
    <3>2. PICK w \in Trans : w = Head(recList[r])
      BY <3>1
    <3>3. /\ pc[r] = "free" /\ pc'[r] \in {"free", "resumed"} /\ want' = want
          /\ pc'[r] = "resumed" => cur'[r] = w
          /\ mStatus'[r] = "BLOCKED" => mStatus[r] = "BLOCKED"
      <4>1. CASE mIndex[w][r] = 1
        BY <4>1, <3>2, <2>11, <1>0 DEF TypeOK, FreeNext, GoTo
      <4>2. CASE mIndex[w][r] # 1
        BY <4>2, <3>2, <2>11, <1>0 DEF TypeOK, FreeNext, GoTo
      <4> QED BY <4>1, <4>2
    <3> QED BY <3>2, <3>3, <1>0 DEF ThreadInv, ForRow, Blocked, InWait
  <2>12. CASE FreeColumn(r)
    BY <2>12, <1>0 DEF TypeOK, ThreadInv, ForRow, Blocked, InWait, FreeColumn, GoTo
  <2>13. CASE EndDone(r)
    BY <2>13, <1>0 DEF TypeOK, ThreadInv, ForRow, Blocked, InWait, EndDone, GoTo
  <2>14. ASSUME NEW tid \in legacy[r], CloseLegacy(r, tid) PROVE ThreadInv(r)'
    BY <2>14, <1>0 DEF ThreadInv, ForRow, Blocked, InWait, CloseLegacy
  <2> QED
    BY <1>3, <2>1, <2>2, <2>3, <2>4, <2>5, <2>6, <2>7, <2>8, <2>9, <2>10, <2>11, <2>12, <2>13, <2>14
    DEF Call, Step
<1> QED BY <1>1, <1>2, <1>3 DEF Next

\* Whoever has freed his table locks has none but what legacy transactions keep.
LEMMA EndStep ==
  ASSUME WInv, [Next]_vars, NEW r \in Trans
  PROVE  EndInv(r)'
<1> USE WaitConstAssumption
<1>0. TypeOK /\ ThreadInv(r) /\ EndInv(r)
  BY DEF WInv
<1>1. CASE UNCHANGED vars
  BY <1>0, <1>1 DEF EndInv, ForTable, vars, txVars, tableVars
<1>2. ASSUME NEW t \in Trans \ {r}, Call(t) \/ Step(t) PROVE EndInv(r)'
  <2>1. /\ pc'[r] = pc[r] /\ want'[r] = want[r] /\ legacy'[r] = legacy[r]
        /\ tbl'[r] = tbl[r] \/ r \in ToSet(queue)
        /\ \A x \in Rows : owner'[x] = r => owner[x] = r
    BY <1>2, Frame
  <2>2. r \in ToSet(queue) => ForTable(r) /\ InWait(r)
    BY QueuedWaits
  <2> QED BY <2>1, <2>2, <1>0 DEF EndInv, ForTable, InWait
<1>3. ASSUME Call(r) \/ Step(r) PROVE EndInv(r)'
  <2>1. CASE Begin(r)
    BY <2>1, <1>0 DEF TypeOK, EndInv, ForTable, Begin, GoTo, txVars, tableVars
  <2>2. ASSUME NEW x \in Rows, TakeRow(r, x) \/ MeetRow(r, x) PROVE EndInv(r)'
    <3>1. want'[r] \in Rows \cup {Nothing} /\ pc'[r] \in {"run", "call"} /\ legacy' = legacy /\ tbl' = tbl
      BY <2>2, <1>0 DEF TypeOK, TakeRow, MeetRow, GoTo, txVars, tableVars
    <3> QED BY <3>1, <1>0 DEF EndInv, ForTable
  <2>3. CASE TargetGone(r) \/ Woken(r) \/ EventBeforeWait(r) \/ GiveUpRow(r)
    <3>1. PICK to \in {"row", "run"} : Back(r, to) /\ legacy' = legacy /\ tbl' = tbl
      BY <2>3 DEF TargetGone, Woken, EventBeforeWait, GiveUpRow, txVars, tableVars
    <3>2. pc'[r] = to /\ want'[r] = IF to = "row" THEN want[r] ELSE Nothing
      BY <3>1, <1>0 DEF TypeOK, Back, GoTo
    <3> QED BY <3>1, <3>2, <1>0 DEF EndInv, ForTable
  <2>4. CASE Register(r) \/ StartCheck(r) \/ EndPass(r) \/ (\E i \in Trans : VisitRow(r, i)) \/ TimeOut(r)
             \/ SessionEvent(r)
    <3>1. want' = want /\ legacy' = legacy /\ tbl' = tbl
      BY <2>4 DEF Register, StartCheck, EndPass, VisitRow, TimeOut, SessionEvent, txVars, tableVars
    <3>2. pc'[r] \in {"suspended1", "check", "suspended2", "giveUp"}
      BY <2>4, <1>0 DEF TypeOK, Register, StartCheck, EndPass, VisitRow, TimeOut, SessionEvent, GoTo
    <3> QED BY <3>1, <3>2, <1>0 DEF EndInv, ForTable
  <2>5. ASSUME NEW m \in AskedTable, GrantTable(r, m) \/ WaitTable(r, m) PROVE EndInv(r)'
    <3>1. pc'[r] \in {"run", "suspended1"} /\ legacy' = legacy
      BY <2>5, <1>0 DEF TypeOK, GrantTable, WaitTable, GoTo, txVars
    <3> QED BY <3>1, <2>5, <1>0 DEF EndInv
  <2>6. CASE GiveUpTable(r)
    <3>1. tbl'[r] = "N" /\ want'[r] = Nothing /\ pc'[r] = "run" /\ legacy' = legacy
      BY <2>6, <1>0 DEF TypeOK, GiveUpTable, LeaveTable, GoTo, txVars
    <3> QED BY <3>1, <1>0 DEF EndInv, ForTable
  <2>7. CASE FreeItems(r)
    <3>1. pc'[r] = "free" /\ want' = want /\ pc[r] = "ending" /\ legacy' = legacy /\ owner' = owner
      BY <2>7, <1>0 DEF TypeOK, FreeItems, GoTo, txVars
    <3>2. tbl'[r] = "N" \/ (tbl'[r] = tbl[r] /\ legacy[r] # {})
      <4>1. CASE tbl[r] = "N" \/ (tbl[r] = "IS" /\ legacy[r] # {})
        BY <4>1, <2>7 DEF FreeItems, tableVars
      <4>2. CASE LeaveTable(r, "COMMIT", mIndex[r])
        BY <4>2 DEF LeaveTable
      <4> QED BY <4>1, <4>2, <2>7 DEF FreeItems
    <3> QED BY <3>1, <3>2, <1>0 DEF EndInv, ForTable
  <2>8. ASSUME NEW open \in BOOLEAN, Commit(r, open) PROVE EndInv(r)'
    <3>1. pc'[r] = "ending" /\ tbl' = tbl /\ want' = want /\ \A x \in Rows : owner'[x] # r
      BY <2>8, <1>0 DEF TypeOK, Commit, GoTo, tableVars
    <3>2. MaxLegacy = 0 => legacy'[r] = {}
      <4>1. Cardinality(legacy[r]) \in Nat
        <5>1. PICK L \in SUBSET (0 .. TidCycle - 1) : L = legacy[r]
          BY <1>0 DEF TypeOK
        <5>2. 0 \in Int /\ TidCycle - 1 \in Int
          OBVIOUS
        <5>3. IsFiniteSet(0 .. TidCycle - 1)
          BY <5>2, FS_Interval
        <5>4. IsFiniteSet(L)
          BY <5>3, FS_Subset
        <5> QED BY <5>1, <5>4, FS_CardinalityType
      <4> QED BY <4>1, <2>8, <1>0 DEF TypeOK, EndInv, Commit
    <3> QED BY <3>1, <3>2, <1>0 DEF EndInv, ForTable
  <2>9. CASE FreeNext(r) \/ FreeColumn(r)
    <3>1. /\ pc[r] \in {"free", "resumed"} /\ pc'[r] \in {"free", "resumed"} /\ want' = want
          /\ legacy' = legacy /\ tbl' = tbl /\ owner' = owner
      BY <2>9, <1>0 DEF TypeOK, FreeNext, FreeColumn, GoTo, txVars, tableVars
    <3> QED BY <3>1, <1>0 DEF EndInv, ForTable
  <2>10. CASE EndDone(r)
    BY <2>10, <1>0 DEF TypeOK, EndInv, ForTable, EndDone, GoTo, tableVars
  <2>11. ASSUME NEW tid \in legacy[r], CloseLegacy(r, tid) PROVE EndInv(r)'
    BY <2>11, <1>0 DEF TypeOK, EndInv, ForTable, CloseLegacy, tableVars
  <2> QED
    BY <1>3, <2>1, <2>2, <2>3, <2>4, <2>5, <2>6, <2>7, <2>8, <2>9, <2>10, <2>11 DEF Call, Step
<1> QED BY <1>1, <1>2, <1>3 DEF Next
-----------------------------------------------------------------------------
(* Rows of the wait-for table.                                             *)

LEMMA ChainStep ==
  ASSUME WInv, [Next]_vars, NEW r \in Trans
  PROVE  ChainInv(r)'
<1>0. TypeOK /\ ThreadInv(r) /\ ChainInv(r) /\ Cardinality(Trans) \in Nat
  BY FS_CardinalityType, WaitConstAssumption DEF WInv
<1>1. CASE UNCHANGED vars
  BY <1>0, <1>1 DEF ChainInv, InWait, vars, txVars, tableVars
<1>2. ASSUME NEW t \in Trans \ {r}, Call(t) \/ Step(t) PROVE ChainInv(r)'
  <2>1. /\ pc'[r] = pc[r] /\ chain'[r] = chain[r] /\ path'[r] = path[r]
        /\ \A u \in Trans : mIndex'[r][u] = mIndex[r][u] \/ mIndex'[r][u] = 0
    BY <1>2, Frame
  <2>2. chain[r] \in SUBSET Trans /\ \A u \in Trans : mIndex[r][u] \in Nat
    BY <1>0 DEF TypeOK
  <2>3. ASSUME pc[r] = "check" PROVE path[r].len \in Nat
    BY <1>0 DEF TypeOK
  <2> QED BY <2>1, <2>2, <2>3, <1>0 DEF ChainInv, InWait
<1>3. ASSUME Call(r) \/ Step(r) PROVE ChainInv(r)'
  <2>a. ASSUME chain'[r] = {}, \A u \in Trans : mIndex'[r][u] = 0, pc'[r] \notin {"suspended1", "check"}
        PROVE  ChainInv(r)'
    BY <2>a DEF ChainInv
  <2>b. ASSUME ~ InWait(r), chain'[r] = chain[r], pc'[r] \notin {"suspended1", "check"},
               \A u \in Trans : mIndex'[r][u] = mIndex[r][u] \/ mIndex'[r][u] = 0
        PROVE  ChainInv(r)'
    BY <2>a, <2>b, OutsideClean
  <2>1. CASE Begin(r) \/ EventBeforeWait(r) \/ EndDone(r)
    <3>1. /\ mIndex' = mIndex /\ chain' = chain /\ ~ InWait(r) /\ pc'[r] \in {"run", "idle"}
      BY <2>1, <1>0 DEF TypeOK, InWait, Begin, EventBeforeWait, EndDone, Back, GoTo
    <3> QED BY <3>1, <2>b
  <2>2. ASSUME NEW x \in Rows, TakeRow(r, x) \/ MeetRow(r, x) PROVE ChainInv(r)'
    <3>1. mIndex' = mIndex /\ chain' = chain /\ ~ InWait(r) /\ pc'[r] \in {"run", "call"}
      BY <2>2, <1>0 DEF TypeOK, InWait, TakeRow, MeetRow, LooksAt, GoTo
    <3> QED BY <3>1, <2>b
  <2>3. ASSUME NEW open \in BOOLEAN, Commit(r, open) PROVE ChainInv(r)'
    <3>1. mIndex' = mIndex /\ chain' = chain /\ ~ InWait(r) /\ pc'[r] = "ending"
      BY <2>3, <1>0 DEF TypeOK, InWait, Commit, GoTo
    <3> QED BY <3>1, <2>b
  <2>4. ASSUME NEW tid \in legacy[r], CloseLegacy(r, tid) PROVE ChainInv(r)'
    <3>1. mIndex' = mIndex /\ chain' = chain /\ ~ InWait(r) /\ pc'[r] = "run"
      BY <2>4, <1>0 DEF InWait, CloseLegacy
    <3> QED BY <3>1, <2>b
  <2>5. CASE TargetGone(r) \/ Woken(r) \/ GiveUpRow(r)
    <3>1. ClearRow(r) /\ \E to \in {"row", "run"} : Back(r, to)
      BY <2>5 DEF TargetGone, Woken, GiveUpRow
    <3>2. pc'[r] \in {"row", "run"}
      BY <3>1, <1>0 DEF TypeOK, Back, GoTo
    <3>3. chain'[r] = {} /\ \A u \in Trans : mIndex'[r][u] = 0
      BY <3>1, <1>0 DEF TypeOK, ClearRow, ChainInv
    <3> QED BY <3>2, <3>3, <2>a
  <2>6. CASE GiveUpTable(r)
    <3>1. pc'[r] = "run" /\ chain'[r] = {}
      BY <2>6, <1>0 DEF TypeOK, GiveUpTable, GoTo
    <3>2. \A u \in Trans : mIndex'[r][u] = 0
      <4>1. mIndex'[r] = [u \in Trans |-> IF u \in chain[r] THEN 0 ELSE mIndex[r][u]]
        BY <2>6 DEF GiveUpTable, LeaveTable
      <4> QED BY <4>1, <1>0 DEF ChainInv
    <3> QED BY <3>1, <3>2, <2>a
  <2>7. CASE FreeItems(r)
    <3>1. chain' = chain /\ ~ InWait(r) /\ pc'[r] = "free"
      BY <2>7, <1>0 DEF TypeOK, InWait, FreeItems, GoTo
    <3>2. mIndex'[r] = mIndex[r]
      <4>1. CASE LeaveTable(r, "COMMIT", mIndex[r])
        BY <4>1 DEF LeaveTable
      <4> QED BY <4>1, <2>7 DEF FreeItems
    <3> QED BY <3>1, <3>2, <2>b
  <2>8. CASE FreeNext(r) \/ FreeColumn(r)
    <3>1. chain' = chain /\ ~ InWait(r) /\ pc'[r] \in {"free", "resumed"}
      BY <2>8, <1>0 DEF TypeOK, InWait, FreeNext, FreeColumn, GoTo
    <3>2. \A u \in Trans : mIndex'[r][u] = mIndex[r][u] \/ mIndex'[r][u] = 0
      <4>1. CASE FreeColumn(r)
        BY <4>1, <1>0 DEF TypeOK, FreeColumn
      <4>2. CASE FreeNext(r)
        <5>1. PICK w : w = Head(recList[r])
          OBVIOUS
        <5>2. mIndex' = mIndex \/ mIndex' = [mIndex EXCEPT ![w][r] = 0]
          BY <4>2, <5>1 DEF FreeNext
        <5>3. ASSUME mIndex' = [mIndex EXCEPT ![w][r] = 0]
              PROVE  \A u \in Trans : mIndex'[r][u] = mIndex[r][u] \/ mIndex'[r][u] = 0
          BY <5>3, <1>0 DEF TypeOK
        <5> QED BY <5>2, <5>3
      <4> QED BY <2>8, <4>1, <4>2
    <3> QED BY <3>1, <3>2, <2>b
  <2>9. CASE Register(r)
    <3>1. PICK h \in Trans \ {r} : h = target[r].slot
      BY <2>9, <1>0 DEF Register, ThreadInv
    <3>2. ~ InWait(r)
      BY <2>9 DEF Register, InWait
    <3>3. chain[r] = {} /\ \A u \in Trans : mIndex[r][u] = 0
      BY <3>2, OutsideClean
    <3>4. /\ mIndex' = [mIndex EXCEPT ![r] = [mIndex[r] EXCEPT ![h] = 1]]
          /\ chain' = [chain EXCEPT ![r] = chain[r] \cup {h}] /\ pc'[r] = "suspended1"
      BY <3>1, <2>9, <1>0 DEF TypeOK, Register, GoTo
    <3>5. chain'[r] = {h} /\ \A u \in Trans : mIndex'[r][u] = IF u = h THEN 1 ELSE 0
      BY <3>3, <3>4, <1>0 DEF TypeOK
    <3> QED BY <3>4, <3>5, <3>1 DEF ChainInv, InWait
  <2>10. ASSUME NEW m \in AskedTable, GrantTable(r, m) \/ WaitTable(r, m) PROVE ChainInv(r)'
    <3>1. CASE GrantTable(r, m)
      <4>1. mIndex' = mIndex /\ chain' = chain /\ ~ InWait(r) /\ pc'[r] = "run"
        BY <3>1, <1>0 DEF TypeOK, InWait, GrantTable
      <4> QED BY <4>1, <2>b
    <3>2. CASE WaitTable(r, m)
      <4>1. PICK A : A = ToSet(queue) \cup {u \in Trans : tbl[u] # "N"}
        OBVIOUS
      <4>2. ~ InWait(r)
        BY <3>2 DEF WaitTable, InWait
      <4>3. chain[r] = {} /\ \A u \in Trans : mIndex[r][u] = 0
        BY <4>2, OutsideClean
      <4>4. /\ mIndex' = [mIndex EXCEPT ![r] = [u \in Trans |-> IF u \in A THEN 1 ELSE mIndex[r][u]]]
            /\ chain' = [chain EXCEPT ![r] = chain[r] \cup A] /\ pc'[r] = "suspended1"
        BY <4>1, <3>2, <1>0 DEF TypeOK, WaitTable, GoTo
      <4>5. chain'[r] = A /\ \A u \in Trans : mIndex'[r][u] = IF u \in A THEN 1 ELSE 0
        BY <4>3, <4>4, <1>0 DEF TypeOK
      <4>6. r \notin A
        BY <4>1, <4>2, <3>2, QueuedWaits DEF WaitTable
      <4>7. A # {}
        <5>1. ASSUME A = {} PROVE FALSE
          <6>1. queue = <<>>
            BY <5>1, <4>1, <1>0, SeqEmpty DEF TypeOK
          <6>2. TableCompatible(m)
            BY <5>1, <4>1 DEF TableCompatible
          <6> QED BY <6>1, <6>2, <3>2 DEF WaitTable
        <5> QED BY <5>1
      <4> QED BY <4>4, <4>5, <4>6, <4>7 DEF ChainInv, InWait
    <3> QED BY <2>10, <3>1, <3>2
  <2>11. CASE StartCheck(r)
    <3>1. PICK C \in SUBSET Trans : C = chain[r]
      BY <1>0 DEF TypeOK
    <3>2. 1 <= Cardinality(C)
      <4>1. C # {} /\ IsFiniteSet(C)
        BY <3>1, <2>11, <1>0, FS_Subset, WaitConstAssumption DEF StartCheck, ChainInv
      <4> QED BY <4>1, FS_EmptySet, FS_CardinalityType
    <3>3. path'[r] = [len |-> 1, todo |-> C, more |-> FALSE] /\ pc'[r] = "check" /\ mIndex' = mIndex
          /\ chain' = chain /\ pc[r] = "suspended1"
      BY <2>11, <3>1, <1>0 DEF TypeOK, StartCheck, GoTo
    <3> QED BY <3>1, <3>2, <3>3, <1>0 DEF ChainInv, InWait
  <2>12. CASE TimeOut(r) \/ SessionEvent(r)
    <3>1. mIndex' = mIndex /\ chain' = chain /\ pc'[r] = "giveUp"
      BY <2>12, <1>0 DEF TypeOK, TimeOut, SessionEvent, GoTo
    <3> QED BY <3>1, <1>0 DEF ChainInv, InWait
  <2>13. CASE EndPass(r)
    <3>1. mIndex' = mIndex /\ chain' = chain /\ pc[r] = "check"
      BY <2>13 DEF EndPass
    <3>2. /\ r \notin chain[r] /\ chain[r] \in SUBSET Trans
          /\ path[r].len \in Nat
          /\ path[r].more => path[r].len + 1 <= Cardinality(chain[r])
                             /\ \A u \in chain[r] : mIndex[r][u] <= path[r].len + 1
      BY <3>1, <1>0 DEF TypeOK, ChainInv
    <3>3. CASE path[r].more /\ path[r].len + 1 < Cardinality(Trans)
      <4>1. path'[r] = [len |-> path[r].len + 1, todo |-> chain[r], more |-> FALSE] /\ pc' = pc
        BY <3>3, <2>13, <1>0 DEF TypeOK, EndPass
      <4> QED BY <4>1, <3>1, <3>2, <3>3, <1>0 DEF ChainInv, InWait
    <3>4. CASE ~ (path[r].more /\ path[r].len + 1 < Cardinality(Trans))
      <4>1. pc'[r] = "suspended2"
        BY <3>4, <2>13, <1>0 DEF TypeOK, EndPass, GoTo
      <4> QED BY <4>1, <3>1, <1>0 DEF ChainInv, InWait
    <3> QED BY <3>3, <3>4
  <2>14. ASSUME NEW i \in Trans, VisitRow(r, i) PROVE ChainInv(r)'
    <3>1. PICK new : new = IF mIndex[r][i] = path[r].len THEN Reached(r, i) ELSE {}
      OBVIOUS
    <3>2. PICK n \in Nat : n = path[r].len
      BY <1>0 DEF TypeOK
    <3>3. PICK C \in SUBSET Trans : C = chain[r]
      BY <1>0 DEF TypeOK
    <3>4. new \in SUBSET Trans /\ \A u \in new : u \notin C
      BY <3>1, <3>3, <1>0 DEF TypeOK, Reached
    <3>5. /\ mIndex' = [mIndex EXCEPT ![r] = [u \in Trans |-> IF u \in new THEN n + 1 ELSE mIndex[r][u]]]
          /\ chain' = [chain EXCEPT ![r] = chain[r] \cup new] /\ pc[r] = "check" /\ i \in path[r].todo
      BY <2>14, <3>1, <3>2, <1>0 DEF TypeOK, VisitRow
    <3>6. chain'[r] = C \cup new /\ \A u \in Trans : mIndex'[r][u] = IF u \in new THEN n + 1 ELSE mIndex[r][u]
      BY <3>3, <3>5, <1>0 DEF TypeOK
    <3>7. CASE r \in new
      <4>1. pc'[r] = "giveUp"
        BY <3>7, <3>1, <2>14, <1>0 DEF TypeOK, VisitRow, GoTo
      <4> QED BY <4>1, <3>3, <3>6, <1>0 DEF ChainInv, InWait
    <3>8. CASE r \notin new
      <4>a. PICK b \in BOOLEAN : b = (path[r].more \/ new # {})
        OBVIOUS
      <4>b. PICK p \in [len : 0 .. Cardinality(Trans), todo : SUBSET Trans, more : BOOLEAN] : p = path[r]
        BY <1>0 DEF TypeOK
      <4>1. path'[r] = [p EXCEPT !.todo = p.todo \ {i}, !.more = b] /\ pc' = pc
        BY <4>a, <4>b, <3>8, <3>1, <2>14, <1>0 DEF TypeOK, VisitRow
      <4>2. path'[r].len = n /\ path'[r].todo \subseteq path[r].todo /\ path'[r].more = b
        BY <4>1, <4>b, <3>2
      <4>3. /\ n # 0 /\ path[r].todo \subseteq C /\ r \notin C
            /\ (IF path[r].more THEN n + 1 ELSE n) <= Cardinality(C)
            /\ \A u \in C : mIndex[r][u] <= (IF path[r].more THEN n + 1 ELSE n) /\ mIndex[r][u] \in Nat
            /\ path[r].more \in BOOLEAN
        BY <3>2, <3>3, <3>5, <1>0 DEF TypeOK, ChainInv
      <4>4. (IF b THEN n + 1 ELSE n) <= Cardinality(C \cup new)
        <5>1. IsFiniteSet(C) /\ IsFiniteSet(C \cup new) /\ C \subseteq C \cup new
          BY <3>4, FS_Subset, WaitConstAssumption
        <5>2. /\ Cardinality(C) \in Nat /\ Cardinality(C \cup new) \in Nat
              /\ Cardinality(C) <= Cardinality(C \cup new)
          BY <5>1, FS_Subset, FS_CardinalityType
        <5>3. CASE new = {}
          BY <5>3, <5>2, <4>3, <4>a
        <5>4. CASE new # {}
          <6>1. PICK j \in new : j \notin C
            BY <5>4, <3>4
          <6>2. Cardinality(C \cup {j}) = Cardinality(C) + 1
            BY <6>1, <5>1, FS_AddElement
          <6>3. C \cup {j} \subseteq C \cup new
            OBVIOUS
          <6>4. Cardinality(C \cup {j}) <= Cardinality(C \cup new)
            BY <6>3, <5>1, FS_Subset
          <6> QED BY <6>2, <6>4, <5>2, <4>3
        <5> QED BY <5>3, <5>4
      <4>5. \A u \in C \cup new : mIndex'[r][u] <= IF b THEN n + 1 ELSE n
        <5>1. ASSUME NEW u \in C \cup new PROVE mIndex'[r][u] <= IF b THEN n + 1 ELSE n
          <6>1. CASE u \in new
            <7>1. mIndex'[r][u] = n + 1 /\ b
              BY <6>1, <3>4, <3>6, <4>a
            <7> QED BY <7>1, <3>2
          <6>2. CASE u \notin new
            <7>1. mIndex'[r][u] = mIndex[r][u] /\ u \in C
              BY <6>2, <3>3, <3>6
            <7>2. path[r].more => b
              BY <4>a
            <7> QED BY <7>1, <7>2, <4>3, <3>2
          <6> QED BY <6>1, <6>2
        <5> QED BY <5>1
      <4>6. \A u \in Trans : mIndex'[r][u] # 0 => u \in C \cup new
        BY <3>3, <3>6, <1>0 DEF ChainInv
      <4> QED BY <4>1, <4>2, <4>3, <4>4, <4>5, <4>6, <3>5, <3>6, <3>8 DEF ChainInv, InWait
    <3> QED BY <3>7, <3>8
  <2> QED
    BY <1>3, <2>1, <2>2, <2>3, <2>4, <2>5, <2>6, <2>7, <2>8, <2>9, <2>10, <2>11, <2>12, <2>13, <2>14
    DEF Call, Step
<1> QED BY <1>1, <1>2, <1>3 DEF Next
-----------------------------------------------------------------------------
(* The table.                                                              *)

\* The steps that change who holds the table or is queued for it.
LEMMA TableSteps ==
  ASSUME NEW t \in Trans, Call(t) \/ Step(t)
  PROVE  \/ UNCHANGED tableVars
         \/ \E m \in AskedTable : GrantTable(t, m) \/ WaitTable(t, m)
         \/ GiveUpTable(t)
         \/ FreeItems(t) /\ LeaveTable(t, "COMMIT", mIndex[t])
<1>1. CASE Begin(t) \/ (\E r \in Rows : TakeRow(t, r) \/ MeetRow(t, r)) \/ TargetGone(t) \/ Register(t) \/ Woken(t)
           \/ StartCheck(t) \/ EndPass(t) \/ (\E i \in Trans : VisitRow(t, i))
  BY <1>1 DEF Begin, TakeRow, MeetRow, TargetGone, Register, Woken, StartCheck, EndPass, VisitRow
<1>2. CASE (\E open \in BOOLEAN : Commit(t, open)) \/ (\E tid \in legacy[t] : CloseLegacy(t, tid)) \/ TimeOut(t)
           \/ EventBeforeWait(t) \/ SessionEvent(t) \/ GiveUpRow(t) \/ FreeNext(t) \/ FreeColumn(t) \/ EndDone(t)
  BY <1>2 DEF Commit, CloseLegacy, TimeOut, EventBeforeWait, SessionEvent, GiveUpRow, FreeNext, FreeColumn, EndDone
<1>3. CASE FreeItems(t)
  BY <1>3 DEF FreeItems, tableVars
<1> QED BY <1>1, <1>2, <1>3 DEF Call, Step

\* The mutex of the table is taken only when it is free.
LEMMA TableTaken ==
  ASSUME WInv, NEW t \in Trans, Call(t) \/ Step(t),
         ForTable(t)', pc'[t] \in {"check", "giveUp"}
  PROVE  (ForTable(t) /\ pc[t] \in {"check", "giveUp"}) \/ ~ TableLocked
<1>0. TypeOK
  BY DEF WInv
<1>1. CASE Begin(t) \/ (\E r \in Rows : TakeRow(t, r) \/ MeetRow(t, r))
  <2>1. pc'[t] \in {"run", "call"}
    BY <1>1, <1>0 DEF TypeOK, Begin, TakeRow, MeetRow, GoTo
  <2> QED BY <2>1
<1>2. CASE TargetGone(t) \/ Woken(t) \/ EventBeforeWait(t) \/ GiveUpRow(t)
  <2>1. PICK to \in {"row", "run"} : Back(t, to)
    BY <1>2 DEF TargetGone, Woken, EventBeforeWait, GiveUpRow
  <2>2. pc'[t] \in {"row", "run"}
    BY <2>1, <1>0 DEF TypeOK, Back, GoTo
  <2> QED BY <2>2
<1>3. CASE Register(t) \/ (\E m \in AskedTable : GrantTable(t, m) \/ WaitTable(t, m))
  <2>1. pc'[t] \in {"run", "suspended1"}
    BY <1>3, <1>0 DEF TypeOK, Register, GrantTable, WaitTable, GoTo
  <2> QED BY <2>1
<1>4. CASE (\E open \in BOOLEAN : Commit(t, open)) \/ (\E tid \in legacy[t] : CloseLegacy(t, tid)) \/ FreeItems(t)
           \/ GiveUpTable(t) \/ FreeNext(t) \/ FreeColumn(t) \/ EndDone(t)
  <2>1. pc'[t] \in {"run", "ending", "free", "resumed", "idle"}
    BY <1>4, <1>0 DEF TypeOK, Commit, CloseLegacy, FreeItems, GiveUpTable, FreeNext, FreeColumn, EndDone, GoTo
  <2> QED BY <2>1
<1>5. CASE StartCheck(t) \/ TimeOut(t) \/ SessionEvent(t)
  <2>1. want' = want /\ (ForTable(t) => ~ TableLocked)
    BY <1>5 DEF StartCheck, TimeOut, SessionEvent
  <2> QED BY <2>1 DEF ForTable
<1>6. CASE EndPass(t) \/ (\E i \in Trans : VisitRow(t, i))
  <2>1. want' = want /\ pc[t] = "check"
    BY <1>6 DEF EndPass, VisitRow
  <2> QED BY <2>1 DEF ForTable
<1> QED BY <1>1, <1>2, <1>3, <1>4, <1>5, <1>6 DEF Call, Step

LEMMA ItemStep ==
  ASSUME WInv, [Next]_vars
  PROVE  ItemInv'
<1>0. TypeOK /\ ItemInv
  BY DEF WInv
<1>1. CASE UNCHANGED vars
  BY <1>0, <1>1 DEF ItemInv, ForTable, vars, txVars, tableVars
<1> SUFFICES ASSUME NEW t \in Trans, Call(t) \/ Step(t) PROVE ItemInv'
  BY <1>1 DEF Next
<1>2. IsInjective(queue')
  <2>1. CASE UNCHANGED tableVars
    BY <2>1, <1>0 DEF ItemInv, tableVars
  <2>2. ASSUME NEW m \in AskedTable, GrantTable(t, m) \/ WaitTable(t, m) PROVE IsInjective(queue')
    <3>1. CASE GrantTable(t, m)
      BY <3>1, <1>0 DEF GrantTable, ItemInv
    <3>2. CASE WaitTable(t, m)
      <4>1. PICK q \in Seq(Trans) : q = queue
        BY <1>0 DEF TypeOK
      <4>2. t \notin ToSet(q)
        BY <4>1, <3>2, QueuedWaits DEF WaitTable, InWait
      <4>3. IsInjective(Append(q, t))
        BY <4>1, <4>2, <1>0, SeqAppend DEF ItemInv
      <4> QED BY <4>1, <4>3, <3>2 DEF WaitTable
    <3> QED BY <2>2, <3>1, <3>2
  <2>3. ASSUME NEW status, NEW row, LeaveTable(t, status, row) PROVE IsInjective(queue')
    <3>1. \E W \in SUBSET Trans : Left(t, status, row, W)
      BY <1>0, <2>3, LeaveFacts DEF TypeOK, ItemInv
    <3> QED BY <3>1 DEF Left
  <2>4. CASE GiveUpTable(t)
    <3>1. PICK row : row = [u \in Trans |-> IF u \in chain[t] THEN 0 ELSE mIndex[t][u]]
      OBVIOUS
    <3> QED BY <3>1, <2>3, <2>4 DEF GiveUpTable
  <2>5. CASE LeaveTable(t, "COMMIT", mIndex[t])
    <3>1. PICK row : row = mIndex[t]
      OBVIOUS
    <3> QED BY <3>1, <2>3, <2>5
  <2> QED BY <2>1, <2>2, <2>4, <2>5, TableSteps
<1>3. ASSUME NEW a \in Trans, NEW u \in Trans,
             ForTable(a)', pc'[a] \in {"check", "giveUp"}, ForTable(u)', pc'[u] \in {"check", "giveUp"}
      PROVE  a = u
  <2>1. \A v \in Trans \ {t} : pc'[v] = pc[v] /\ want'[v] = want[v]
    BY Frame
  <2>2. \A v \in Trans \ {t} : v = a \/ v = u =>
          ForTable(v) /\ pc[v] \in {"check", "giveUp"} /\ TableLocked
    BY <2>1, <1>3 DEF ForTable, TableLocked
  <2>3. CASE a # t /\ u # t
    BY <2>2, <2>3, <1>0 DEF ItemInv
  <2>4. ASSUME a = t, u # t PROVE FALSE
    BY <2>2, <2>4, <1>0, <1>3, TableTaken DEF ItemInv
  <2>5. ASSUME u = t, a # t PROVE FALSE
    BY <2>2, <2>5, <1>0, <1>3, TableTaken DEF ItemInv
  <2> QED BY <2>3, <2>4, <2>5
<1> QED BY <1>2, <1>3 DEF ItemInv

\* The waiter whose turn it is does not wait for the table.
LEMMA HeadLinked ==
  ASSUME WInv, NoTableLink, NEW t \in Trans, FreeNext(t), NEW w \in Trans, w = Head(recList[t]),
         ForTable(w)
  PROVE  mIndex[w][t] # 1
<1>1. PICK q \in Seq(Trans) : q = recList[t] /\ IsInjective(q)
  BY DEF WInv, TypeOK, ListInv
<1>2. w \in ToSet(recList[t]) /\ pc[t] = "free"
  BY <1>1, SeqTail DEF FreeNext
<1> QED BY <1>2 DEF NoTableLink, ToFree

\* The steps that leave the table alone change nothing for those that wait for it.
LEMMA TableKept ==
  ASSUME WInv, NoTableLink, NEW t \in Trans, Call(t) \/ Step(t), UNCHANGED tableVars,
         NEW r \in Trans
  PROVE  /\ ForTable(r)' => /\ ForTable(r) /\ want'[r] = want[r] /\ (Blocked(r)' <=> Blocked(r))
                            /\ pc'[r] = "check" => pc[r] = "check" \/ Blocked(r)
                            /\ \A u \in Trans : mIndex'[r][u] = 1 <=> mIndex[r][u] = 1
                            /\ ~ Blocked(r) => \A u \in Trans : mIndex'[r][u] = 0
         /\ ForTable(r) /\ Blocked(r) => ForTable(r)'
<1>0. TypeOK /\ ItemInv /\ ThreadInv(r) /\ ThreadInv(t) /\ ChainInv(r) /\ TableInv(r)
  BY DEF WInv
<1> DEFINE Own == /\ ForTable(r)' => /\ ForTable(r) /\ want'[r] = want[r] /\ (Blocked(r)' <=> Blocked(r))
                                     /\ pc'[r] = "check" => pc[r] = "check" \/ Blocked(r)
                                     /\ \A u \in Trans : mIndex'[r][u] = 1 <=> mIndex[r][u] = 1
                                     /\ ~ Blocked(r) => \A u \in Trans : mIndex'[r][u] = 0
                  /\ ForTable(r) /\ Blocked(r) => ForTable(r)'
<1>1. ~ ForTable(r) /\ ~ ForTable(r)' => Own
  OBVIOUS
<1>a. ForTable(r) /\ ~ Blocked(r) => \A u \in Trans : mIndex[r][u] = 0
  BY <1>0 DEF TableInv
<1>2. CASE r # t
  <2>1. pc'[r] = pc[r] /\ want'[r] = want[r]
    BY <1>2, Frame
  <2>b. ForTable(r)' <=> ForTable(r)
    BY <2>1 DEF ForTable
  <2>2. ASSUME mIndex'[r] = mIndex[r], mStatus'[r] = mStatus[r] PROVE Own
    BY <2>1, <2>b, <2>2, <1>a DEF Blocked
  <2>3. CASE Begin(t) \/ TimeOut(t) \/ SessionEvent(t) \/ EventBeforeWait(t) \/ EndDone(t) \/ StartCheck(t)
             \/ EndPass(t)
    <3>1. mIndex' = mIndex /\ mStatus'[r] = mStatus[r]
      BY <2>3, <1>2, <1>0 DEF TypeOK, Begin, TimeOut, SessionEvent, EventBeforeWait, EndDone, StartCheck, EndPass, Back
    <3> QED BY <3>1, <2>2
  <2>4. CASE TargetGone(t) \/ Woken(t) \/ GiveUpRow(t)
    <3>1. ClearRow(t) /\ \E to : Back(t, to)
      BY <2>4 DEF TargetGone, Woken, GiveUpRow
    <3>2. mIndex'[r] = mIndex[r] /\ mStatus'[r] = mStatus[r]
      BY <3>1, <1>2, <1>0 DEF TypeOK, ClearRow, Back
    <3> QED BY <3>2, <2>2
  <2>5. CASE (\E x \in Rows : TakeRow(t, x) \/ MeetRow(t, x)) \/ (\E open \in BOOLEAN : Commit(t, open))
             \/ (\E tid \in legacy[t] : CloseLegacy(t, tid))
    <3>1. mIndex' = mIndex /\ mStatus'[r] = mStatus[r]
      BY <2>5, <1>2, <1>0 DEF TypeOK, TakeRow, MeetRow, Commit, CloseLegacy
    <3> QED BY <3>1, <2>2
  <2>6. CASE Register(t) \/ (\E i \in Trans : VisitRow(t, i))
    <3>1. mIndex'[r] = mIndex[r] /\ mStatus'[r] = mStatus[r]
      BY <2>6, <1>2, <1>0 DEF TypeOK, Register, VisitRow
    <3> QED BY <3>1, <2>2
  <2>7. CASE \E m \in AskedTable : GrantTable(t, m) \/ WaitTable(t, m)
    <3>1. mIndex'[r] = mIndex[r] /\ mStatus'[r] = mStatus[r]
      BY <2>7, <1>2, <1>0 DEF TypeOK, GrantTable, WaitTable
    <3> QED BY <3>1, <2>2
  <2>8. ASSUME NEW status, NEW row, LeaveTable(t, status, row)
        PROVE  mIndex'[r] = [v \in Trans |-> IF r \in ToSet(queue) /\ v = t THEN 0 ELSE mIndex[r][v]]
               /\ mStatus'[r] = mStatus[r]
    <3>1. PICK W \in SUBSET Trans : Left(t, status, row, W)
      BY <1>0, <2>8, LeaveFacts DEF TypeOK, ItemInv
    <3>2. ToSet(queue) = ToSet(queue) \ ({t} \cup W) /\ W \subseteq ToSet(queue)
      BY <3>1 DEF Left, tableVars
    <3>3. r \notin W
      BY <3>2
    <3> QED BY <3>1, <3>3, <1>2 DEF Left
  <2>9. CASE LeaveTable(t, "COMMIT", mIndex[t]) \/ GiveUpTable(t)
    <3>1. \E status, row : LeaveTable(t, status, row)
      BY <2>9 DEF GiveUpTable
    <3>2. PICK status, row : LeaveTable(t, status, row)
      BY <3>1
    <3>3. /\ mIndex'[r] = [v \in Trans |-> IF r \in ToSet(queue) /\ v = t THEN 0 ELSE mIndex[r][v]]
          /\ mStatus'[r] = mStatus[r]
      BY <3>2, <2>8
    <3>4. tbl[t] = "N" /\ t \notin ToSet(queue)
      <4>1. PICK W \in SUBSET Trans : Left(t, status, row, W)
        BY <1>0, <3>2, LeaveFacts DEF TypeOK, ItemInv
      <4>2. tbl' = tbl /\ queue' = queue
        BY DEF tableVars
      <4>3. tbl'[t] = "N" /\ t \notin ToSet(queue')
        BY <4>1 DEF Left
      <4> QED BY <4>2, <4>3
    <3>5. ForTable(r) => mIndex[r][t] # 1
      BY <3>4, <1>0 DEF TableInv
    <3> QED BY <2>b, <2>1, <3>3, <3>5, <1>a DEF Blocked
  <2>10. CASE FreeItems(t)
    <3>1. CASE UNCHANGED <<tableVars, mStatus, mIndex>>
      BY <3>1, <2>2
    <3> QED BY <3>1, <2>9, <2>10 DEF FreeItems
  <2>11. CASE FreeNext(t) \/ FreeColumn(t)
    <3>1. CASE FreeColumn(t) /\ ForTable(r)
      <4>1. mStatus' = mStatus /\ mIndex' = [mIndex EXCEPT ![cur[t]][t] = 0] /\ pc[t] = "resumed"
        BY <3>1 DEF FreeColumn
      <4>2. r = cur[t] => mIndex[r][t] # 1
        BY <3>1, <4>1 DEF NoTableLink, ToFree
      <4>3. \A u \in Trans : mIndex'[r][u] = mIndex[r][u] \/ (u = t /\ r = cur[t] /\ mIndex'[r][u] = 0)
        BY <4>1, <1>0 DEF TypeOK
      <4> QED BY <4>1, <4>2, <4>3, <2>b, <2>1, <3>1, <1>a DEF Blocked
    <3>2. CASE FreeNext(t) /\ ForTable(r)
      <4>1. PICK w : w = Head(recList[t])
        OBVIOUS
      <4>2. r = w => mIndex[r][t] # 1
        BY <3>2, <4>1, HeadLinked
      <4>3. CASE mIndex[w][t] = 1
        <5>1. mIndex' = mIndex /\ mStatus'[r] = mStatus[r]
          BY <4>1, <4>2, <4>3, <3>2, <1>0 DEF TypeOK, FreeNext
        <5> QED BY <5>1, <2>2
      <4>4. CASE mIndex[w][t] # 1
        <5>1. mStatus' = mStatus /\ mIndex' = [mIndex EXCEPT ![w][t] = 0]
          BY <4>1, <4>4, <3>2 DEF FreeNext
        <5>2. \A u \in Trans : mIndex'[r][u] = mIndex[r][u] \/ (u = t /\ r = w /\ mIndex'[r][u] = 0)
          BY <5>1, <1>0 DEF TypeOK
        <5> QED BY <5>1, <5>2, <4>2, <2>b, <2>1, <3>2, <1>a DEF Blocked
      <4> QED BY <4>3, <4>4
    <3>3. CASE ~ ForTable(r)
      BY <3>3, <2>b
    <3> QED BY <2>11, <3>1, <3>2, <3>3
  <2> QED BY <2>3, <2>4, <2>5, <2>6, <2>7, <2>9, <2>10, <2>11 DEF Call, Step
<1>3. CASE r = t
  <2> USE WaitConstAssumption
  <2>a. r \in Trans /\ (Call(r) \/ Step(r)) /\ (ForRow(r) => ~ ForTable(r)) /\ (want[r] = Nothing => ~ ForTable(r))
    BY <1>3, QueuedWaits
  <2>1. CASE Begin(r) \/ TargetGone(r) \/ Register(r) \/ EventBeforeWait(r) \/ GiveUpRow(r)
    <3>1. ~ ForTable(r)
      BY <2>1, <2>a, <1>0 DEF Begin, TargetGone, Register, EventBeforeWait, GiveUpRow, ThreadInv
    <3>2. want' = want \/ \E to : Back(r, to)
      BY <2>1 DEF Begin, TargetGone, Register, EventBeforeWait, GiveUpRow
    <3>3. want'[r] \in {want[r], Nothing}
      BY <3>2, <1>0 DEF TypeOK, Back
    <3>4. ~ ForTable(r)'
      BY <3>1, <3>3 DEF ForTable
    <3> QED BY <3>1, <3>4
  <2>2. CASE \E x \in Rows : TakeRow(r, x) \/ MeetRow(r, x)
    <3>1. ~ ForTable(r)
      BY <2>2, <2>a, <1>0 DEF TakeRow, MeetRow, LooksAt, ThreadInv
    <3>2. want'[r] \in Rows \cup {Nothing}
      BY <2>2, <1>0 DEF TypeOK, TakeRow, MeetRow
    <3>4. ~ ForTable(r)'
      BY <3>2 DEF ForTable
    <3> QED BY <3>1, <3>4
  <2>3. CASE Woken(r)
    <3>1. ~ Blocked(r)
      BY <2>3 DEF Woken, Blocked
    <3>2. want'[r] = IF ForRow(r) THEN want[r] ELSE Nothing
      BY <2>3, <1>0 DEF TypeOK, Woken, Back
    <3>3. ~ ForTable(r)'
      BY <3>2 DEF ForTable, ForRow
    <3> QED BY <3>1, <3>3
  <2>4. CASE StartCheck(r) \/ EndPass(r)
    <3>1. mStatus' = mStatus /\ mIndex' = mIndex /\ want' = want
      BY <2>4 DEF StartCheck, EndPass
    <3>2. pc[r] = "check" \/ Blocked(r)
      BY <2>4 DEF StartCheck, EndPass, Blocked
    <3> QED BY <3>1, <3>2, <1>a DEF ForTable, Blocked
  <2>5. CASE TimeOut(r) \/ SessionEvent(r)
    <3>1. mStatus' = mStatus /\ mIndex' = mIndex /\ want' = want /\ pc'[r] = "giveUp"
      BY <2>5, <1>0 DEF TypeOK, TimeOut, SessionEvent, GoTo
    <3> QED BY <3>1, <1>a DEF ForTable, Blocked
  <2>6. ASSUME NEW i \in Trans, VisitRow(r, i) PROVE Own
    <3>1. PICK new : new = IF mIndex[r][i] = path[r].len THEN Reached(r, i) ELSE {}
      OBVIOUS
    <3>2. PICK n \in Nat : n = path[r].len
      BY <1>0 DEF TypeOK
    <3>3. /\ mIndex' = [mIndex EXCEPT ![r] = [u \in Trans |-> IF u \in new THEN n + 1 ELSE mIndex[r][u]]]
          /\ mStatus' = mStatus /\ want' = want /\ pc[r] = "check"
      BY <2>6, <3>1, <3>2 DEF VisitRow
    <3>4. \A u \in Trans : mIndex'[r][u] = IF u \in new THEN n + 1 ELSE mIndex[r][u]
      BY <3>3, <1>0 DEF TypeOK
    <3>5. n # 0
      BY <3>2, <3>3, <1>0 DEF ChainInv
    <3>6. \A u \in new : u \notin chain[r]
      BY <3>1 DEF Reached
    <3>7. \A u \in new : u \in Trans => mIndex[r][u] = 0 /\ n + 1 # 1
      BY <3>2, <3>5, <3>6, <1>0 DEF ChainInv
    <3>8. \A u \in Trans : mIndex'[r][u] = 1 <=> mIndex[r][u] = 1
      BY <3>4, <3>7
    <3>9. ForTable(r) => Blocked(r)
      BY <3>3, <1>0 DEF TableInv
    <3> QED BY <3>3, <3>8, <3>9 DEF ForTable, Blocked
  <2>7. CASE (\E m \in AskedTable : GrantTable(r, m) \/ WaitTable(r, m)) \/ GiveUpTable(r)
    <3>1. ASSUME NEW m \in AskedTable, GrantTable(r, m) PROVE Own
      <4>1. want' = want /\ want[r] = Nothing
        BY <3>1, <1>0, <1>3 DEF GrantTable, ThreadInv
      <4> QED BY <4>1, <2>a DEF ForTable
    <3>2. ASSUME NEW m \in AskedTable, WaitTable(r, m) PROVE FALSE
      <4>1. queue' = Append(queue, r) /\ queue' = queue /\ queue \in Seq(Trans)
        BY <3>2, <1>0 DEF WaitTable, tableVars, TypeOK
      <4>2. PICK q \in Seq(Trans) : q = queue
        BY <4>1
      <4>3. Len(Append(q, r)) = Len(q) + 1 /\ Len(q) \in Nat
        BY AppendProperties
      <4>4. Append(q, r) = q
        BY <4>1, <4>2
      <4>5. Len(Append(q, r)) = Len(q)
        BY <4>4
      <4>6. PICK n \in Nat : n = Len(q)
        BY <4>3
      <4>7. n + 1 = n
        BY <4>3, <4>5, <4>6
      <4> QED BY <4>7
    <3>3. CASE GiveUpTable(r)
      <4>1. want'[r] = Nothing
        BY <3>3, <1>0 DEF TypeOK, GiveUpTable
      <4>2. ~ ForTable(r)'
        BY <4>1 DEF ForTable
      <4>3. r \notin ToSet(queue)
        <5>1. LeaveTable(r, "BEGIN", [u \in Trans |-> IF u \in chain[r] THEN 0 ELSE mIndex[r][u]])
          BY <3>3 DEF GiveUpTable
        <5>2. PICK row : row = [u \in Trans |-> IF u \in chain[r] THEN 0 ELSE mIndex[r][u]]
          OBVIOUS
        <5>3. \E W \in SUBSET Trans : Left(r, "BEGIN", row, W)
          BY <5>1, <5>2, <1>0, LeaveFacts DEF TypeOK, ItemInv
        <5> QED BY <5>3 DEF Left, tableVars
      <4> QED BY <4>2, <4>3, <1>0 DEF TableInv
    <3> QED BY <2>7, <3>1, <3>2, <3>3
  <2>8. CASE (\E open \in BOOLEAN : Commit(r, open)) \/ (\E tid \in legacy[r] : CloseLegacy(r, tid)) \/ FreeItems(r)
             \/ FreeNext(r) \/ FreeColumn(r) \/ EndDone(r)
    <3>1. want' = want /\ want[r] = Nothing
      BY <2>8, <1>0, <1>3 DEF Commit, CloseLegacy, FreeItems, FreeNext, FreeColumn, EndDone, ThreadInv
    <3> QED BY <3>1, <2>a DEF ForTable
  <2> QED BY <2>a, <2>1, <2>2, <2>3, <2>4, <2>5, <2>6, <2>7, <2>8 DEF Call, Step
<1> QED BY <1>2, <1>3

\* t loses his mode or his request, under the mutex of the table.
LEMMA TableLeft ==
  ASSUME WInv, NEW t \in Trans, NEW status, NEW row, LeaveTable(t, status, row),
         ~ ForTable(t)', (pc[t] = "giveUp" /\ ForTable(t)) \/ ~ TableLocked,
         NEW r \in Trans, pc'[r] = pc[r] \/ r = t, want'[r] = want[r] \/ r = t
  PROVE  TableInv(r)'
<1>0. TypeOK /\ ItemInv /\ ThreadInv(r) /\ ChainInv(r) /\ TableInv(r)
  BY DEF WInv
<1>1. PICK W \in SUBSET Trans : Left(t, status, row, W)
  BY <1>0, LeaveFacts DEF TypeOK, ItemInv
<1>2. CASE r = t
  <2>1. t \notin ToSet(queue')
    BY <1>1 DEF Left
  <2> QED BY <1>2, <2>1 DEF TableInv
<1>3. CASE r # t
  <2>1. pc'[r] = pc[r] /\ want'[r] = want[r]
    BY <1>3
  <2>2. /\ r \in ToSet(queue') <=> r \in ToSet(queue) /\ r \notin W
        /\ r \in W => r \in ToSet(queue)
    BY <1>1, <1>3 DEF Left
  <2>3. /\ mStatus'[r] = IF r \in W THEN "BEGIN" ELSE mStatus[r]
        /\ tbl'[r] = IF r \in W THEN want[r] ELSE tbl[r]
        /\ \A u \in Trans : mIndex'[r][u] = IF \/ r \in W /\ u \in chain[r]
                                               \/ r \in ToSet(queue) /\ u = t
                                            THEN 0 ELSE mIndex[r][u]
    BY <1>1, <1>3 DEF Left
  <2>4. /\ ForTable(r)' <=> ForTable(r)
        /\ Blocked(r)' <=> Blocked(r) /\ r \notin W
    BY <2>1, <2>3 DEF ForTable, Blocked
  <2>5. ForTable(r)' /\ ~ Blocked(r)' =>
          /\ tbl'[r] = want'[r] /\ pc'[r] # "check"
          /\ \A u \in Trans : mIndex'[r][u] = 0
    <3>1. CASE r \in W
      <4>1. ForTable(r)
        BY <3>1, <2>2, QueuedWaits
      <4>2. pc[r] # "check"
        BY <4>1, <1>0, <1>3 DEF ItemInv, TableLocked
      <4>3. \A u \in Trans : mIndex'[r][u] = 0
        BY <3>1, <2>3, <1>0 DEF ChainInv
      <4> QED BY <3>1, <4>2, <4>3, <2>1, <2>3
    <3>2. CASE r \notin W
      BY <3>2, <2>1, <2>3, <2>4, <1>0 DEF TableInv
    <3> QED BY <3>1, <3>2
  <2>6. ASSUME ForTable(r)', NEW u \in Trans, mIndex'[r][u] = 1
        PROVE  u # r /\ (tbl'[u] # "N" \/ u \in ToSet(queue'))
    <3>1. mIndex[r][u] = 1 /\ ~ (r \in ToSet(queue) /\ u = t)
      BY <2>3, <2>6
    <3>2. u # r /\ (tbl[u] # "N" \/ u \in ToSet(queue)) /\ r \in ToSet(queue)
      BY <3>1, <2>4, <2>6, <1>0 DEF TableInv
    <3>3. u # t
      BY <3>1, <3>2
    <3>4. CASE u \in W
      <4>1. want[u] \in TableMode
        BY <3>4, <1>1, QueuedWaits DEF Left
      <4>2. want[u] # "N"
        BY <4>1 DEF TableMode
      <4>3. tbl'[u] = want[u]
        BY <3>3, <3>4, <1>1 DEF Left
      <4> QED BY <3>2, <4>2, <4>3
    <3>5. CASE u \notin W
      BY <3>2, <3>3, <3>5, <1>1 DEF Left
    <3> QED BY <3>4, <3>5
  <2>7. ASSUME r \in ToSet(queue'), NEW u \in Trans \ {r}, tbl'[u] # "N" \/ Ahead(u, r)'
        PROVE  mIndex'[r][u] = 1
    <3>1. r \in ToSet(queue) /\ r \notin W
      BY <2>2, <2>7
    <3>2. u # t
      <4>1. tbl'[t] = "N" /\ t \notin ToSet(queue')
        BY <1>1 DEF Left
      <4>2. Ahead(u, r)' => u \in ToSet(queue')
        BY DEF Ahead, ToSet
      <4> QED BY <4>1, <4>2, <2>7
    <3>3. tbl[u] # "N" \/ Ahead(u, r)
      <4>1. u \in W \/ Ahead(u, r)' => Ahead(u, r)
        BY <2>7, <1>1 DEF Left
      <4>2. u \notin W => tbl'[u] = tbl[u]
        BY <3>2, <1>1 DEF Left
      <4> QED BY <4>1, <4>2, <2>7
    <3> QED BY <3>1, <3>2, <3>3, <2>3, <1>0 DEF TableInv
  <2> QED BY <2>2, <2>4, <2>5, <2>6, <2>7, <1>0 DEF TableInv
<1> QED BY <1>2, <1>3

\* The new request is behind all others.
LEMMA TableEntered ==
  ASSUME WInv, NEW t \in Trans, NEW m \in AskedTable, WaitTable(t, m), NEW r \in Trans
  PROVE  TableInv(r)'
<1>0. TypeOK /\ ItemInv /\ TableInv(r)
  BY DEF WInv
<1>1. PICK q \in Seq(Trans) : q = queue
  BY <1>0 DEF TypeOK
<1>2. PICK A : A = ToSet(queue) \cup {u \in Trans : tbl[u] # "N"}
  OBVIOUS
<1>3. ~ InWait(t) /\ tbl[t] = "N"
  BY DEF WaitTable, InWait
<1>4. t \notin ToSet(q) /\ \A u \in Trans : mIndex[t][u] = 0
  BY <1>1, <1>3, QueuedWaits, OutsideClean
<1>5. Append(q, t) \in Seq(Trans) /\ ToSet(Append(q, t)) = ToSet(q) \cup {t}
  BY <1>1, <1>4, <1>0, SeqAppend DEF ItemInv
<1>6. /\ queue' = Append(q, t) /\ tbl' = tbl /\ want'[t] = m
      /\ mIndex' = [mIndex EXCEPT ![t] = [u \in Trans |-> IF u \in A THEN 1 ELSE mIndex[t][u]]]
      /\ mStatus' = [mStatus EXCEPT ![t] = "BLOCKED"] /\ pc'[t] = "suspended1"
  BY <1>1, <1>2, <1>0 DEF TypeOK, WaitTable, GoTo
<1>7. ASSUME NEW u \in Trans, NEW v \in Trans, Ahead(u, v)'
      PROVE  u \in ToSet(q) /\ (v # t => Ahead(u, v))
  <2> HIDE DEF ToSet
  <2>1. /\ DOMAIN Append(q, t) = 1 .. Len(q) + 1
        /\ \A k \in 1 .. Len(q) : Append(q, t)[k] = q[k]
        /\ Append(q, t)[Len(q) + 1] = t /\ Len(q) \in Nat /\ DOMAIN q = 1 .. Len(q)
    BY AppendProperties
  <2>2. PICK k, l \in DOMAIN Append(q, t) : k < l /\ Append(q, t)[k] = u /\ Append(q, t)[l] = v
    BY <1>6, <1>7 DEF Ahead
  <2>3. k \in DOMAIN q /\ q[k] = u
    BY <2>1, <2>2
  <2>4. v # t => l \in DOMAIN q /\ q[l] = v
    BY <2>1, <2>2
  <2> QED BY <1>1, <2>2, <2>3, <2>4 DEF Ahead, ToSet
<1>8. CASE r = t
  <2>1. \A u \in Trans : mIndex'[t][u] = IF u \in A THEN 1 ELSE 0
    BY <1>4, <1>6, <1>0 DEF TypeOK
  <2>2. ForTable(t)' /\ Blocked(t)' /\ t \in ToSet(queue')
    <3>1. m \in TableMode
      BY WaitConstAssumption
    <3> QED BY <3>1, <1>5, <1>6, <1>0 DEF TypeOK, ForTable, Blocked
  <2>3. t \notin A /\ \A u \in Trans : u \in A <=> tbl'[u] # "N" \/ u \in ToSet(q)
    BY <1>1, <1>2, <1>3, <1>4, <1>6
  <2>4. \A u \in Trans : mIndex'[t][u] = 1 => u # t /\ (tbl'[u] # "N" \/ u \in ToSet(queue'))
    BY <2>1, <2>3, <1>5, <1>6
  <2>5. \A u \in Trans \ {t} : tbl'[u] # "N" \/ Ahead(u, t)' => mIndex'[t][u] = 1
    BY <2>1, <2>3, <1>7
  <2> QED BY <1>8, <2>2, <2>4, <2>5 DEF TableInv
<1>9. CASE r # t
  <2>1. pc'[r] = pc[r] /\ want'[r] = want[r]
    BY <1>9, Frame DEF Call
  <2>2. mIndex'[r] = mIndex[r] /\ mStatus'[r] = mStatus[r]
    BY <1>6, <1>9, <1>0 DEF TypeOK
  <2>3. /\ ForTable(r)' <=> ForTable(r)
        /\ Blocked(r)' <=> Blocked(r)
    BY <2>1, <2>2 DEF ForTable, Blocked
  <2>4. \A u \in Trans : u \in ToSet(queue) => u \in ToSet(queue')
    BY <1>1, <1>5, <1>6
  <2>5. r \in ToSet(queue') <=> r \in ToSet(queue)
    BY <1>1, <1>5, <1>6, <1>9
  <2>6. \A u \in Trans : Ahead(u, r)' => Ahead(u, r)
    BY <1>7, <1>9
  <2> QED BY <2>1, <2>2, <2>3, <2>4, <2>5, <2>6, <1>6, <1>0 DEF TableInv
<1> QED BY <1>8, <1>9

LEMMA TableStep ==
  ASSUME WInv, NoTableLink, [Next]_vars, NEW r \in Trans
  PROVE  TableInv(r)'
<1>0. TypeOK /\ ItemInv /\ TableInv(r) /\ ThreadInv(r)
  BY DEF WInv
<1>1. CASE UNCHANGED vars
  BY <1>0, <1>1 DEF TableInv, ForTable, Blocked, Ahead, vars, txVars, tableVars
<1> SUFFICES ASSUME NEW t \in Trans, Call(t) \/ Step(t) PROVE TableInv(r)'
  BY <1>1 DEF Next
<1>2. (pc'[r] = pc[r] /\ want'[r] = want[r]) \/ r = t
  BY Frame
<1>3. CASE UNCHANGED tableVars
  <2>1. /\ ForTable(r)' => /\ ForTable(r) /\ want'[r] = want[r] /\ (Blocked(r)' <=> Blocked(r))
                           /\ pc'[r] = "check" => pc[r] = "check" \/ Blocked(r)
                           /\ \A u \in Trans : mIndex'[r][u] = 1 <=> mIndex[r][u] = 1
                           /\ ~ Blocked(r) => \A u \in Trans : mIndex'[r][u] = 0
        /\ ForTable(r) /\ Blocked(r) => ForTable(r)'
    BY <1>3, TableKept
  <2>2. queue' = queue /\ tbl' = tbl
    BY <1>3 DEF tableVars
  <2>3. r \in ToSet(queue') <=> ForTable(r)' /\ Blocked(r)'
    BY <2>1, <2>2, <1>0 DEF TableInv
  <2>4. ForTable(r)' => want'[r] = want[r]
    BY <2>1
  <2>5. ForTable(r)' /\ ~ Blocked(r)' => tbl'[r] = want'[r] /\ pc'[r] # "check" /\ \A u \in Trans : mIndex'[r][u] = 0
    BY <2>1, <2>2, <2>4, <1>0 DEF TableInv
  <2>6. ForTable(r)' => \A u \in Trans : mIndex'[r][u] = 1 => u # r /\ (tbl'[u] # "N" \/ u \in ToSet(queue'))
    BY <2>1, <2>2, <1>0 DEF TableInv
  <2>7. r \in ToSet(queue') => \A u \in Trans \ {r} : tbl'[u] # "N" \/ Ahead(u, r)' => mIndex'[r][u] = 1
    BY <2>1, <2>2, <2>3, <1>0 DEF TableInv, Ahead
  <2> QED BY <2>3, <2>5, <2>6, <2>7 DEF TableInv
<1>4. ASSUME NEW m \in AskedTable, GrantTable(t, m) PROVE TableInv(r)'
  <2>1. /\ queue = <<>> /\ queue' = queue /\ want' = want /\ pc' = pc /\ mStatus' = mStatus /\ mIndex' = mIndex
        /\ tbl' = [tbl EXCEPT ![t] = m] /\ tbl[t] = "N" /\ pc[t] = "run"
    BY <1>4 DEF GrantTable
  <2>2. want[t] = Nothing
    BY <2>1 DEF WInv, ThreadInv
  <2>3. ~ ForTable(t) /\ ToSet(queue) = {}
    BY <2>1, <2>2, QueuedWaits, SeqEmpty
  <2>4. m # "N"
    BY WaitConstAssumption DEF TableMode
  <2>5. ForTable(r) => tbl'[r] = tbl[r]
    BY <2>1, <2>3, <1>0 DEF TypeOK
  <2>6. \A u \in Trans : tbl[u] # "N" => tbl'[u] # "N"
    BY <2>1, <2>4, <1>0 DEF TypeOK
  <2>7. ToSet(queue') = {}
    BY <2>1, <2>3
  <2>8. ForTable(r)' = ForTable(r) /\ Blocked(r)' = Blocked(r)
    BY <2>1 DEF ForTable, Blocked
  <2> QED BY <2>1, <2>3, <2>5, <2>6, <2>7, <2>8, <1>0 DEF TableInv
<1>5. ASSUME NEW m \in AskedTable, WaitTable(t, m) PROVE TableInv(r)'
  BY <1>5, TableEntered
<1>6. CASE GiveUpTable(t)
  <2>1. LeaveTable(t, "BEGIN", [u \in Trans |-> IF u \in chain[t] THEN 0 ELSE mIndex[t][u]])
    BY <1>6 DEF GiveUpTable
  <2>2. PICK row : row = [u \in Trans |-> IF u \in chain[t] THEN 0 ELSE mIndex[t][u]]
    OBVIOUS
  <2>3. LeaveTable(t, "BEGIN", row)
    BY <2>1, <2>2
  <2>4. want'[t] = Nothing /\ pc[t] = "giveUp" /\ ForTable(t)
    BY <1>6, <1>0 DEF TypeOK, GiveUpTable
  <2>5. ~ ForTable(t)'
    BY <2>4, WaitConstAssumption DEF ForTable
  <2>6. PICK status : status = "BEGIN"
    OBVIOUS
  <2> QED BY <2>3, <2>4, <2>5, <2>6, <1>2, TableLeft
<1>7. CASE FreeItems(t) /\ LeaveTable(t, "COMMIT", mIndex[t])
  <2>2. PICK row, status : row = mIndex[t] /\ status = "COMMIT"
    OBVIOUS
  <2>3. LeaveTable(t, status, row)
    BY <1>7, <2>2
  <2>4. want' = want /\ pc[t] = "ending" /\ ~ TableLocked
    BY <1>7 DEF FreeItems
  <2>5. want[t] = Nothing
    BY <2>4 DEF WInv, ThreadInv
  <2>6. ~ ForTable(t)'
    BY <2>4, <2>5, WaitConstAssumption DEF ForTable
  <2> QED BY <2>3, <2>4, <2>6, <1>2, TableLeft
<1> QED BY <1>3, <1>4, <1>5, <1>6, <1>7, TableSteps

-----------------------------------------------------------------------------
(* The wait for a row, and the lists of freeAllRecordLock.                 *)

\* What a step of t does to the wait of another transaction r.
LEMMA Effect ==
  ASSUME WInv, NEW t \in Trans, Call(t) \/ Step(t), NEW r \in Trans \ {t}
  PROVE  \/ mIndex'[r] = mIndex[r] /\ mStatus'[r] = mStatus[r]
         \/ /\ FreeNext(t) /\ r = Head(recList[t]) /\ mIndex[r][t] = 1
            /\ mIndex'[r] = mIndex[r] /\ mStatus'[r] # "BLOCKED"
         \/ /\ \/ FreeNext(t) /\ r = Head(recList[t]) /\ mIndex[r][t] # 1
               \/ FreeColumn(t) /\ r = cur[t]
            /\ mStatus'[r] = mStatus[r]
            /\ \A u \in Trans : mIndex'[r][u] = IF u = t THEN 0 ELSE mIndex[r][u]
         \/ /\ GiveUpTable(t) \/ FreeItems(t)
            /\ r \in ToSet(queue)
            /\ \/ /\ mStatus'[r] = "BEGIN" /\ tbl'[r] = want[r] /\ \A u \in Trans : mIndex'[r][u] = 0
               \/ /\ mStatus'[r] = mStatus[r]
                  /\ \A u \in Trans : mIndex'[r][u] = IF u = t THEN 0 ELSE mIndex[r][u]
<1>0. TypeOK /\ ItemInv /\ ChainInv(r) /\ ThreadInv(t)
  BY DEF WInv
<1> DEFINE Same == mIndex'[r] = mIndex[r] /\ mStatus'[r] = mStatus[r]
           Let(a) == /\ a
                     /\ r \in ToSet(queue)
                     /\ \/ /\ mStatus'[r] = "BEGIN" /\ tbl'[r] = want[r] /\ \A u \in Trans : mIndex'[r][u] = 0
                        \/ /\ mStatus'[r] = mStatus[r]
                           /\ \A u \in Trans : mIndex'[r][u] = IF u = t THEN 0 ELSE mIndex[r][u]
<1>1. CASE Begin(t) \/ TimeOut(t) \/ SessionEvent(t) \/ EventBeforeWait(t) \/ EndDone(t) \/ StartCheck(t)
           \/ EndPass(t)
  <2>1. Same
    BY <1>1, <1>0 DEF TypeOK, Begin, TimeOut, SessionEvent, EventBeforeWait, EndDone, StartCheck, EndPass, Back
  <2> QED BY <2>1
<1>2. CASE TargetGone(t) \/ Woken(t) \/ GiveUpRow(t)
  <2>1. ClearRow(t) /\ \E to : Back(t, to)
    BY <1>2 DEF TargetGone, Woken, GiveUpRow
  <2>2. Same
    BY <2>1, <1>0 DEF TypeOK, ClearRow, Back
  <2> QED BY <2>2
<1>3. CASE (\E x \in Rows : TakeRow(t, x) \/ MeetRow(t, x)) \/ (\E open \in BOOLEAN : Commit(t, open))
           \/ (\E tid \in legacy[t] : CloseLegacy(t, tid))
  <2>1. Same
    BY <1>3, <1>0 DEF TypeOK, TakeRow, MeetRow, Commit, CloseLegacy
  <2> QED BY <2>1
<1>4. CASE Register(t) \/ (\E i \in Trans : VisitRow(t, i)) \/ (\E m \in AskedTable : GrantTable(t, m) \/ WaitTable(t, m))
  <2>1. Same
    BY <1>4, <1>0 DEF TypeOK, Register, VisitRow, GrantTable, WaitTable
  <2> QED BY <2>1
<1>5. ASSUME NEW status, NEW row, LeaveTable(t, status, row)
      PROVE  \/ Same
             \/ Let(TRUE)
  <2>1. PICK W \in SUBSET Trans : Left(t, status, row, W)
    BY <1>0, <1>5, LeaveFacts DEF TypeOK, ItemInv
  <2>2. /\ mStatus'[r] = IF r \in W THEN "BEGIN" ELSE mStatus[r]
        /\ tbl'[r] = IF r \in W THEN want[r] ELSE tbl[r]
        /\ mIndex'[r] = [u \in Trans |-> IF \/ r \in W /\ u \in chain[r]
                                            \/ r \in ToSet(queue) /\ u = t
                                         THEN 0 ELSE mIndex[r][u]]
        /\ r \in W => r \in ToSet(queue)
    BY <2>1 DEF Left
  <2>3. CASE r \in W
    <3>1. \A u \in Trans : mIndex'[r][u] = 0
      BY <2>2, <2>3, <1>0 DEF ChainInv
    <3> QED BY <3>1, <2>2, <2>3
  <2>4. CASE r \notin W /\ r \in ToSet(queue)
    <3>1. \A u \in Trans : mIndex'[r][u] = IF u = t THEN 0 ELSE mIndex[r][u]
      BY <2>2, <2>4
    <3> QED BY <3>1, <2>2, <2>4
  <2>5. CASE r \notin ToSet(queue)
    <3>1. mIndex'[r] = [u \in Trans |-> mIndex[r][u]] /\ r \notin W
      BY <2>2, <2>5
    <3>2. mIndex'[r] = mIndex[r]
      BY <3>1, <1>0 DEF TypeOK
    <3> QED BY <3>1, <3>2, <2>2
  <2> QED BY <2>3, <2>4, <2>5
<1>6. CASE GiveUpTable(t)
  <2>1. PICK row : row = [u \in Trans |-> IF u \in chain[t] THEN 0 ELSE mIndex[t][u]]
    OBVIOUS
  <2>2. LeaveTable(t, "BEGIN", row)
    BY <2>1, <1>6 DEF GiveUpTable
  <2>3. Same \/ Let(TRUE)
    BY <2>2, <1>5
  <2> QED BY <2>3, <1>6
<1>7. CASE FreeItems(t)
  <2>1. CASE LeaveTable(t, "COMMIT", mIndex[t])
    <3>1. PICK row : row = mIndex[t]
      OBVIOUS
    <3>2. Same \/ Let(TRUE)
      BY <3>1, <2>1, <1>5
    <3> QED BY <3>2, <1>7
  <2>2. CASE UNCHANGED <<tableVars, mStatus, mIndex>>
    <3>1. Same
      BY <2>2
    <3> QED BY <3>1
  <2> QED BY <2>1, <2>2, <1>7 DEF FreeItems
<1>8. CASE FreeNext(t)
  <2>1. PICK w : w = Head(recList[t])
    OBVIOUS
  <2>2. CASE mIndex[w][t] = 1
    <3>1. /\ mStatus' = [mStatus EXCEPT ![w] = IF mStatus[w] = "BLOCKED" THEN "BEGIN" ELSE mStatus[w]]
          /\ mIndex' = mIndex
      BY <2>1, <2>2, <1>8, <1>0 DEF TypeOK, FreeNext
    <3>2. CASE w = r
      <4>1. mStatus'[r] # "BLOCKED"
        BY <3>1, <3>2, <1>0 DEF TypeOK
      <4> QED BY <4>1, <3>1, <3>2, <2>1, <2>2, <1>8
    <3>3. CASE w # r
      BY <3>1, <3>3, <1>0 DEF TypeOK
    <3> QED BY <3>2, <3>3
  <2>3. CASE mIndex[w][t] # 1
    <3>1. mIndex' = [mIndex EXCEPT ![w][t] = 0] /\ mStatus' = mStatus
      BY <2>1, <2>3, <1>8 DEF FreeNext
    <3>2. CASE w = r
      <4>1. \A u \in Trans : mIndex'[r][u] = IF u = t THEN 0 ELSE mIndex[r][u]
        BY <3>1, <3>2, <1>0 DEF TypeOK
      <4> QED BY <4>1, <3>1, <3>2, <2>1, <2>3, <1>8
    <3>3. CASE w # r
      BY <3>1, <3>3, <1>0 DEF TypeOK
    <3> QED BY <3>2, <3>3
  <2> QED BY <2>2, <2>3
<1>9. CASE FreeColumn(t)
  <2>1. PICK w \in Trans : w = cur[t]
    BY <1>9, <1>0 DEF FreeColumn, ThreadInv
  <2>2. mIndex' = [mIndex EXCEPT ![w][t] = 0] /\ mStatus' = mStatus
    BY <2>1, <1>9 DEF FreeColumn
  <2>3. CASE w = r
    <3>1. \A u \in Trans : mIndex'[r][u] = IF u = t THEN 0 ELSE mIndex[r][u]
      BY <2>2, <2>3, <1>0 DEF TypeOK
    <3> QED BY <3>1, <2>1, <2>2, <2>3, <1>9
  <2>4. CASE w # r
    BY <2>2, <2>4, <1>0 DEF TypeOK
  <2> QED BY <2>3, <2>4
<1> QED BY <1>1, <1>2, <1>3, <1>4, <1>6, <1>7, <1>8, <1>9 DEF Call, Step

\* How a thread gets into a wait, and goes on in it.
LEMMA OwnWait ==
  ASSUME WInv, NEW t \in Trans, Call(t) \/ Step(t)
  PROVE  \/ ~ InWait(t)'
         \/ Register(t)
         \/ \E m \in AskedTable : WaitTable(t, m)
         \/ /\ InWait(t)
            /\ UNCHANGED <<txVars, mStatus, recList, tableVars, want, target, cur>>
            /\ chain[t] \subseteq chain'[t]
            /\ \A u \in Trans : mIndex'[t][u] = 1 <=> mIndex[t][u] = 1
<1>0. TypeOK /\ ChainInv(t)
  BY DEF WInv
<1>1. CASE TargetGone(t) \/ Woken(t) \/ EventBeforeWait(t) \/ GiveUpRow(t)
  <2>1. PICK to \in {"row", "run"} : Back(t, to)
    BY <1>1 DEF TargetGone, Woken, EventBeforeWait, GiveUpRow
  <2>2. pc'[t] \in {"row", "run"}
    BY <2>1, <1>0 DEF TypeOK, Back, GoTo
  <2> QED BY <2>2 DEF InWait
<1>2. CASE (\E m \in AskedTable : GrantTable(t, m)) \/ Begin(t) \/ (\E r \in Rows : TakeRow(t, r) \/ MeetRow(t, r))
           \/ GiveUpTable(t)
  <2>1. pc'[t] \in {"run", "call"}
    BY <1>2, <1>0 DEF TypeOK, GrantTable, Begin, TakeRow, MeetRow, GiveUpTable, GoTo
  <2> QED BY <2>1 DEF InWait
<1>3. CASE (\E open \in BOOLEAN : Commit(t, open)) \/ (\E tid \in legacy[t] : CloseLegacy(t, tid)) \/ FreeItems(t)
           \/ FreeNext(t) \/ FreeColumn(t) \/ EndDone(t)
  <2>1. pc'[t] \in {"run", "ending", "free", "resumed", "idle"}
    BY <1>3, <1>0 DEF TypeOK, Commit, CloseLegacy, FreeItems, FreeNext, FreeColumn, EndDone, GoTo
  <2> QED BY <2>1 DEF InWait
<1>4. CASE StartCheck(t) \/ EndPass(t) \/ TimeOut(t) \/ SessionEvent(t)
  <2>1. /\ InWait(t) /\ UNCHANGED <<txVars, mStatus, recList, tableVars, want, target, cur>>
        /\ chain' = chain /\ mIndex' = mIndex
    BY <1>4 DEF InWait, Suspended, StartCheck, EndPass, TimeOut, SessionEvent
  <2> QED BY <2>1
<1>5. ASSUME NEW i \in Trans, VisitRow(t, i)
      PROVE  /\ InWait(t)
             /\ UNCHANGED <<txVars, mStatus, recList, tableVars, want, target, cur>>
             /\ chain[t] \subseteq chain'[t]
             /\ \A u \in Trans : mIndex'[t][u] = 1 <=> mIndex[t][u] = 1
  <2>1. PICK new : new = IF mIndex[t][i] = path[t].len THEN Reached(t, i) ELSE {}
    OBVIOUS
  <2>2. PICK n \in Nat : n = path[t].len
    BY <1>0 DEF TypeOK
  <2>3. /\ mIndex' = [mIndex EXCEPT ![t] = [u \in Trans |-> IF u \in new THEN n + 1 ELSE mIndex[t][u]]]
        /\ chain' = [chain EXCEPT ![t] = chain[t] \cup new] /\ pc[t] = "check"
        /\ UNCHANGED <<txVars, mStatus, recList, tableVars, want, target, cur>>
    BY <1>5, <2>1, <2>2, <1>0 DEF TypeOK, VisitRow
  <2>4. n # 0
    BY <2>2, <2>3, <1>0 DEF ChainInv
  <2>5. \A u \in new : u \in Trans => mIndex[t][u] = 0 /\ n + 1 # 1
    <3>1. \A u \in new : u \notin chain[t]
      BY <2>1 DEF Reached
    <3> QED BY <3>1, <2>2, <2>4, <1>0 DEF ChainInv
  <2>6. \A u \in Trans : mIndex'[t][u] = IF u \in new THEN n + 1 ELSE mIndex[t][u]
    BY <2>3, <1>0 DEF TypeOK
  <2>7. chain[t] \subseteq chain'[t]
    BY <2>3, <1>0 DEF TypeOK
  <2>8. \A u \in Trans : mIndex'[t][u] = 1 <=> mIndex[t][u] = 1
    BY <2>5, <2>6
  <2> QED BY <2>3, <2>7, <2>8 DEF InWait
<1> QED BY <1>1, <1>2, <1>3, <1>4, <1>5 DEF Call, Step

\* Only a registration and freeAllRecordLock change a list, and only the end of a
\* transaction its TID and its status.
LEMMA EndEffect ==
  ASSUME WInv, NEW t \in Trans, Call(t) \/ Step(t)
  PROVE  /\ Register(t) \/ FreeNext(t) \/ recList' = recList
         /\ EndDone(t) \/ (mTransID' = mTransID /\ (mStatus[t] # "END" => mStatus'[t] # "END"))
         /\ pc'[t] = "resumed" => FreeNext(t) /\ cur'[t] = Head(recList[t]) /\ mIndex[cur'[t]][t] = 1
<1>0. TypeOK /\ ItemInv /\ ThreadInv(t)
  BY DEF WInv
<1> DEFINE Goal == /\ Register(t) \/ FreeNext(t) \/ recList' = recList
                   /\ EndDone(t) \/ (mTransID' = mTransID /\ (mStatus[t] # "END" => mStatus'[t] # "END"))
                   /\ pc'[t] = "resumed" => FreeNext(t) /\ cur'[t] = Head(recList[t]) /\ mIndex[cur'[t]][t] = 1
<1>1. CASE TargetGone(t) \/ Woken(t) \/ EventBeforeWait(t) \/ GiveUpRow(t)
  <2>1. PICK to \in {"row", "run"} : Back(t, to) /\ recList' = recList /\ mTransID' = mTransID
    BY <1>1 DEF TargetGone, Woken, EventBeforeWait, GiveUpRow, txVars
  <2>2. pc'[t] \in {"row", "run"} /\ mStatus'[t] = "BEGIN"
    BY <2>1, <1>0 DEF TypeOK, Back, GoTo
  <2> QED BY <2>1, <2>2
<1>2. CASE Begin(t) \/ Register(t)
  <2>1. pc'[t] # "resumed" /\ mTransID' = mTransID /\ mStatus'[t] # "END" /\ (Begin(t) => recList' = recList)
    BY <1>2, <1>0 DEF TypeOK, Begin, Register, GoTo, txVars
  <2> QED BY <2>1, <1>2
<1>3. CASE (\E r \in Rows : TakeRow(t, r) \/ MeetRow(t, r)) \/ (\E tid \in legacy[t] : CloseLegacy(t, tid))
  <2>1. pc'[t] # "resumed" /\ mTransID' = mTransID /\ mStatus' = mStatus /\ recList' = recList
    BY <1>3, <1>0 DEF TypeOK, TakeRow, MeetRow, CloseLegacy, GoTo, txVars
  <2> QED BY <2>1
<1>4. CASE (\E m \in AskedTable : GrantTable(t, m) \/ WaitTable(t, m))
  <2>1. /\ pc'[t] # "resumed" /\ mTransID' = mTransID /\ recList' = recList
        /\ mStatus' = mStatus \/ mStatus'[t] = "BLOCKED"
    BY <1>4, <1>0 DEF TypeOK, GrantTable, WaitTable, GoTo, txVars
  <2> QED BY <2>1
<1>5. CASE StartCheck(t) \/ EndPass(t) \/ TimeOut(t) \/ SessionEvent(t)
  <2>1. pc'[t] # "resumed" /\ mTransID' = mTransID /\ mStatus' = mStatus /\ recList' = recList
    BY <1>5, <1>0 DEF TypeOK, StartCheck, EndPass, TimeOut, SessionEvent, GoTo, txVars
  <2> QED BY <2>1
<1>6. ASSUME NEW i \in Trans, VisitRow(t, i) PROVE Goal
  <2>1. pc'[t] # "resumed" /\ mTransID' = mTransID /\ mStatus' = mStatus /\ recList' = recList
    BY <1>6, <1>0 DEF TypeOK, VisitRow, GoTo, txVars
  <2> QED BY <2>1
<1>7. ASSUME NEW open \in BOOLEAN, Commit(t, open) PROVE Goal
  <2>1. pc'[t] # "resumed" /\ mTransID' = mTransID /\ mStatus'[t] # "END" /\ recList' = recList
    BY <1>7, <1>0 DEF TypeOK, Commit, GoTo
  <2> QED BY <2>1
<1>8. CASE GiveUpTable(t)
  <2>1. pc'[t] # "resumed" /\ mTransID' = mTransID /\ mStatus'[t] = "BEGIN" /\ recList' = recList
    BY <1>8, <1>0 DEF TypeOK, GiveUpTable, LeaveTable, GoTo, txVars
  <2> QED BY <2>1
<1>9. CASE FreeItems(t)
  <2>1. pc'[t] # "resumed" /\ mTransID' = mTransID /\ recList' = recList
    BY <1>9, <1>0 DEF TypeOK, FreeItems, GoTo, txVars
  <2>2. mStatus'[t] = mStatus[t] \/ mStatus'[t] = "COMMIT"
    BY <1>9 DEF FreeItems, LeaveTable
  <2> QED BY <2>1, <2>2
<1>10. CASE FreeNext(t)
  <2>1. PICK w : w = Head(recList[t])
    OBVIOUS
  <2>2. CASE mIndex[w][t] = 1
    <3>1. /\ mStatus' = [mStatus EXCEPT ![w] = IF mStatus[w] = "BLOCKED" THEN "BEGIN" ELSE mStatus[w]]
          /\ cur'[t] = w /\ mTransID' = mTransID
      BY <2>1, <2>2, <1>10, <1>0 DEF TypeOK, FreeNext, txVars
    <3>2. mStatus[t] # "END" => mStatus'[t] # "END"
      BY <3>1, <1>0 DEF TypeOK
    <3> QED BY <3>1, <3>2, <2>1, <2>2, <1>10
  <2>3. CASE mIndex[w][t] # 1
    <3>1. pc'[t] # "resumed" /\ mTransID' = mTransID /\ mStatus' = mStatus
      BY <2>1, <2>3, <1>10, <1>0 DEF TypeOK, FreeNext, txVars
    <3> QED BY <3>1, <1>10
  <2> QED BY <2>2, <2>3
<1>11. CASE FreeColumn(t) \/ EndDone(t)
  <2>1. pc'[t] # "resumed" /\ recList' = recList
    BY <1>11, <1>0 DEF TypeOK, FreeColumn, EndDone, GoTo
  <2>2. FreeColumn(t) => mTransID' = mTransID /\ mStatus' = mStatus
    BY DEF FreeColumn, txVars
  <2> QED BY <2>1, <2>2, <1>11
<1> QED BY <1>1, <1>2, <1>3, <1>4, <1>5, <1>6, <1>7, <1>8, <1>9, <1>10, <1>11 DEF Call, Step

LEMMA RowStep ==
  ASSUME WInv, [Next]_vars, NEW r \in Trans
  PROVE  RowInv(r)'
<1>0. TypeOK /\ ThreadInv(r) /\ ChainInv(r) /\ RowInv(r)
  BY DEF WInv
<1>1. CASE UNCHANGED vars
  BY <1>0, <1>1 DEF RowInv, ForRow, InWait, Blocked, vars, txVars, tableVars
<1>2. ASSUME NEW t \in Trans \ {r}, Call(t) \/ Step(t) PROVE RowInv(r)'
  <2>1. /\ pc'[r] = pc[r] /\ want'[r] = want[r] /\ target'[r] = target[r] /\ chain'[r] = chain[r]
        /\ Blocked(r)' => Blocked(r)
        /\ \A u \in Trans : mIndex'[r][u] = mIndex[r][u] \/ mIndex'[r][u] = 0
    BY <1>2, Frame
  <2> SUFFICES ASSUME ForRow(r), InWait(r) PROVE RowInv(r)'
    BY <2>1 DEF RowInv, ForRow, InWait
  <2>2. PICK h \in Trans \ {r} : h = target[r].slot
    BY <1>0 DEF ThreadInv, InWait
  <2>3. \A u \in Trans : mIndex'[r][u] = 1 => u = h
    BY <2>1, <2>2, <1>0 DEF RowInv
  <2>4. ASSUME Blocked(r)'
        PROVE  /\ mTransID'[h] = target[r].tid /\ mStatus'[h] # "END"
               /\ mIndex'[r][h] = 1 /\ h \in chain[r] /\ r \in ToSet(recList'[h])
               /\ ~ (pc'[h] = "resumed" /\ cur'[h] = r)
    <3>1. /\ mTransID[h] = target[r].tid /\ mStatus[h] # "END"
          /\ mIndex[r][h] = 1 /\ h \in chain[r] /\ r \in ToSet(recList[h])
          /\ ~ (pc[h] = "resumed" /\ cur[h] = r)
      BY <2>1, <2>2, <2>4, <1>0 DEF RowInv
    <3>2. r \notin ToSet(queue)
      BY QueuedWaits
    <3>3. ~ (FreeNext(t) /\ r = Head(recList[t]) /\ mIndex[r][t] = 1)
      <4> SUFFICES ASSUME FreeNext(t), r = Head(recList[t]), mIndex[r][t] = 1 PROVE FALSE
        OBVIOUS
      <4>1. mStatus' = [mStatus EXCEPT ![r] = IF mStatus[r] = "BLOCKED" THEN "BEGIN" ELSE mStatus[r]]
        BY <1>0 DEF TypeOK, FreeNext
      <4> QED BY <4>1, <2>4, <1>0 DEF TypeOK, Blocked
    <3>4. mIndex'[r][h] = 1
      <4>1. CASE mIndex'[r] = mIndex[r]
        BY <4>1, <3>1
      <4>2. CASE /\ \/ FreeNext(t) /\ r = Head(recList[t]) /\ mIndex[r][t] # 1
                    \/ FreeColumn(t) /\ r = cur[t]
                 /\ \A u \in Trans : mIndex'[r][u] = IF u = t THEN 0 ELSE mIndex[r][u]
        <5>1. h # t
          BY <4>2, <3>1 DEF FreeColumn
        <5> QED BY <5>1, <4>2, <3>1
      <4> QED BY <4>1, <4>2, <3>2, <3>3, <1>2, Effect
    <3>5. r \in ToSet(recList'[h])
      <4>1. CASE recList' = recList
        BY <4>1, <3>1
      <4>2. CASE Register(t)
        <5>1. PICK g \in Trans : g = target[t].slot
          BY <4>2 DEF Register, WInv, ThreadInv
        <5>2. recList' = [recList EXCEPT ![g] = Linked(t, g)]
          BY <4>2, <5>1 DEF Register
        <5>3. CASE g = h /\ t \notin ToSet(recList[h])
          <6>1. PICK q \in Seq(Trans) : q = recList[h]
            BY <1>0 DEF TypeOK
          <6>2. recList'[h] = Append(q, t)
            BY <6>1, <5>2, <5>3, <1>0 DEF TypeOK, Linked
          <6>3. ToSet(Append(q, t)) = ToSet(q) \cup {t}
            <7>1. IsInjective(q)
              BY <6>1 DEF WInv, ListInv
            <7> QED BY <7>1, <6>1, <5>3, SeqAppend
          <6> QED BY <6>1, <6>2, <6>3, <3>1
        <5>4. CASE g # h \/ t \in ToSet(recList[h])
          <6>1. recList'[h] = recList[h]
            BY <5>2, <5>4, <1>0 DEF TypeOK, Linked
          <6> QED BY <6>1, <3>1
        <5> QED BY <5>3, <5>4
      <4>3. CASE FreeNext(t)
        <5>1. recList' = [recList EXCEPT ![t] = Tail(recList[t])] /\ recList[t] # <<>>
          BY <4>3 DEF FreeNext
        <5>2. CASE h = t
          <6>1. PICK q \in Seq(Trans) : q = recList[t]
            BY <1>0 DEF TypeOK
          <6>2. ToSet(Tail(q)) = ToSet(q) \ {Head(q)}
            <7>1. IsInjective(q) /\ q # <<>>
              BY <6>1, <5>1 DEF WInv, ListInv
            <7> QED BY <7>1, SeqTail
          <6>3. r # Head(q)
            BY <6>1, <5>2, <4>3, <3>1, <3>3
          <6> QED BY <6>1, <6>2, <6>3, <5>1, <5>2, <3>1, <1>0 DEF TypeOK
        <5>3. CASE h # t
          BY <5>1, <5>3, <3>1, <1>0 DEF TypeOK
        <5> QED BY <5>2, <5>3
      <4> QED BY <4>1, <4>2, <4>3, <1>2, EndEffect
    <3>6. mTransID'[h] = mTransID[h] /\ mStatus'[h] # "END"
      <4>1. CASE h # t
        BY <4>1, <3>1, <1>2, Frame
      <4>2. CASE h = t
        <5>1. ~ EndDone(t)
          BY <3>1, <4>2, SeqEmpty DEF EndDone
        <5> QED BY <5>1, <4>2, <3>1, <1>2, EndEffect
      <4> QED BY <4>1, <4>2
    <3>7. ~ (pc'[h] = "resumed" /\ cur'[h] = r)
      <4>1. CASE h # t
        <5>1. pc'[h] = pc[h] /\ cur'[h] = cur[h]
          BY <4>1, <1>2, Frame
        <5> QED BY <5>1, <3>1
      <4>2. CASE h = t
        BY <4>2, <3>3, <1>2, EndEffect
      <4> QED BY <4>1, <4>2
    <3> QED BY <3>1, <3>4, <3>5, <3>6, <3>7
  <2> QED BY <2>1, <2>2, <2>3, <2>4 DEF RowInv
<1>3. ASSUME Call(r) \/ Step(r) PROVE RowInv(r)'
  <2>1. CASE ~ InWait(r)'
    BY <2>1 DEF RowInv
  <2>2. CASE Register(r)
    <3>1. PICK h \in Trans \ {r} : h = target[r].slot
      BY <2>2, <1>0 DEF Register, ThreadInv
    <3>2. chain[r] = {} /\ \A u \in Trans : mIndex[r][u] = 0
      BY <2>2, OutsideClean DEF Register, InWait
    <3>3. /\ mIndex' = [mIndex EXCEPT ![r] = [mIndex[r] EXCEPT ![h] = 1]]
          /\ chain' = [chain EXCEPT ![r] = chain[r] \cup {h}]
          /\ recList' = [recList EXCEPT ![h] = Linked(r, h)]
          /\ mStatus' = [mStatus EXCEPT ![r] = "BLOCKED"]
          /\ target' = target /\ mTransID' = mTransID /\ pc' = [pc EXCEPT ![r] = "suspended1"]
      BY <3>1, <2>2, <1>0 DEF TypeOK, Register, GoTo, txVars
    <3>4. /\ h \in chain'[r] /\ \A u \in Trans : mIndex'[r][u] = IF u = h THEN 1 ELSE 0
          /\ mStatus'[h] = mStatus[h] /\ pc'[h] = pc[h]
      BY <3>2, <3>3, <1>0 DEF TypeOK
    <3>5. mTransID[h] = target[r].tid /\ mStatus[h] # "END" /\ pc[h] # "resumed"
      BY <2>2, <3>1 DEF Register, StillThere, TransLocked
    <3>6. r \in ToSet(recList'[h])
      <4>1. PICK q \in Seq(Trans) : q = recList[h]
        BY <1>0 DEF TypeOK
      <4>2. recList'[h] = IF r \in ToSet(q) THEN q ELSE Append(q, r)
        BY <4>1, <3>3, <1>0 DEF TypeOK, Linked
      <4>3. r \notin ToSet(q) => ToSet(Append(q, r)) = ToSet(q) \cup {r}
        <5>1. IsInjective(q)
          BY <4>1 DEF WInv, ListInv
        <5> QED BY <5>1, SeqAppend
      <4> QED BY <4>2, <4>3
    <3> QED BY <3>1, <3>3, <3>4, <3>5, <3>6 DEF RowInv
  <2>3. ASSUME NEW m \in AskedTable, WaitTable(r, m) PROVE RowInv(r)'
    <3>1. want'[r] = m /\ m \notin Rows
      BY <2>3, <1>0, WaitConstAssumption DEF TypeOK, WaitTable
    <3> QED BY <3>1 DEF RowInv, ForRow
  <2>4. CASE /\ InWait(r)
             /\ UNCHANGED <<txVars, mStatus, recList, tableVars, want, target, cur>>
             /\ chain[r] \subseteq chain'[r]
             /\ \A u \in Trans : mIndex'[r][u] = 1 <=> mIndex[r][u] = 1
    <3>1. ForRow(r)' <=> ForRow(r)
      BY <2>4 DEF ForRow
    <3>2. Blocked(r)' <=> Blocked(r)
      BY <2>4 DEF Blocked
    <3> SUFFICES ASSUME ForRow(r) PROVE RowInv(r)'
      BY <3>1 DEF RowInv
    <3>3. PICK h \in Trans \ {r} : h = target[r].slot
      BY <2>4, <1>0 DEF ThreadInv, InWait
    <3>4. pc'[h] = pc[h]
      BY <3>3, <1>3, Frame
    <3> QED BY <2>4, <3>2, <3>3, <3>4, <1>0 DEF RowInv, txVars
  <2> QED BY <2>1, <2>2, <2>3, <2>4, <1>3, OwnWait
<1> QED BY <1>1, <1>2, <1>3 DEF Next

\* Who is in no wait after the step has an empty row.
LEMMA CleanAfter ==
  ASSUME WInv, [Next]_vars, NEW r \in Trans, ~ InWait(r)'
  PROVE  \A u \in Trans : mIndex'[r][u] = 0
BY ChainStep DEF ChainInv

LEMMA ListStep ==
  ASSUME WInv, NoTableLink, [Next]_vars, NEW h \in Trans
  PROVE  ListInv(h)'
<1>0. TypeOK /\ ListInv(h)
  BY DEF WInv
<1>1. CASE UNCHANGED vars
  BY <1>0, <1>1 DEF ListInv, Blocked, vars, txVars, tableVars
<1> SUFFICES ASSUME NEW t \in Trans, Call(t) \/ Step(t) PROVE ListInv(h)'
  BY <1>1 DEF Next
<1>2. PICK q \in Seq(Trans) : q = recList[h] /\ IsInjective(q)
  BY <1>0 DEF TypeOK, ListInv
\* The list itself.
<1>3. /\ IsInjective(recList'[h])
      /\ \A u \in ToSet(recList'[h]) : u \in Trans
      /\ \A u \in ToSet(recList'[h]) : u \in ToSet(q) \/ (u = t /\ Register(t))
      /\ FreeNext(t) /\ h = t => Head(recList[t]) \notin ToSet(recList'[h])
  <2>a. \A u \in ToSet(q) : u \in Trans
    BY DEF ToSet
  <2>1. CASE recList' = recList /\ ~ FreeNext(t)
    BY <2>1, <2>a, <1>2
  <2>2. CASE Register(t)
    <3>1. PICK g \in Trans : g = target[t].slot
      BY <2>2 DEF Register, WInv, ThreadInv
    <3>2. recList' = [recList EXCEPT ![g] = Linked(t, g)] /\ pc[t] = "call"
      BY <2>2, <3>1 DEF Register
    <3>3. ~ FreeNext(t)
      BY <3>2 DEF FreeNext
    <3>4. CASE g = h /\ t \notin ToSet(q)
      <4>1. recList'[h] = Append(q, t)
        BY <1>2, <3>2, <3>4, <1>0 DEF TypeOK, Linked
      <4>2. IsInjective(Append(q, t)) /\ ToSet(Append(q, t)) = ToSet(q) \cup {t}
        BY <1>2, <3>4, SeqAppend
      <4> QED BY <4>1, <4>2, <3>3, <2>2, <2>a
    <3>5. CASE g # h \/ t \in ToSet(q)
      <4>1. recList'[h] = q
        BY <1>2, <3>2, <3>5, <1>0 DEF TypeOK, Linked
      <4> QED BY <4>1, <3>3, <1>2, <2>a
    <3> QED BY <3>4, <3>5
  <2>3. CASE FreeNext(t)
    <3>1. recList' = [recList EXCEPT ![t] = Tail(recList[t])] /\ recList[t] # <<>>
      BY <2>3 DEF FreeNext
    <3>2. CASE h = t
      <4>1. IsInjective(Tail(q)) /\ ToSet(Tail(q)) = ToSet(q) \ {Head(q)}
        BY <1>2, <3>1, <3>2, SeqTail
      <4>2. recList'[h] = Tail(q)
        BY <1>2, <3>1, <3>2, <1>0 DEF TypeOK
      <4> QED BY <4>1, <4>2, <1>2, <3>2, <2>a
    <3>3. CASE h # t
      <4>1. recList'[h] = q
        BY <1>2, <3>1, <3>3, <1>0 DEF TypeOK
      <4> QED BY <4>1, <3>3, <1>2, <2>a
    <3> QED BY <3>2, <3>3
  <2> QED BY <2>1, <2>2, <2>3, EndEffect
\* Those in it.
<1>4. ASSUME NEW u \in ToSet(recList'[h]), mIndex'[u][h] = 1 PROVE Blocked(u)'
  <2>0. u \in Trans
    BY <1>3
  <2>1. CASE u = t
    <3>1. CASE ~ InWait(t)'
      <4>1. mIndex'[t][h] = 0
        BY <3>1, CleanAfter
      <4> QED BY <4>1, <2>1, <1>4
    <3>2. CASE Register(t)
      BY <3>2, <2>1, <1>0 DEF TypeOK, Register, Blocked
    <3>3. ASSUME NEW m \in AskedTable, WaitTable(t, m) PROVE Blocked(u)'
      BY <3>3, <2>1, <1>0 DEF TypeOK, WaitTable, Blocked
    <3>4. CASE /\ InWait(t)
               /\ UNCHANGED <<txVars, mStatus, recList, tableVars, want, target, cur>>
               /\ chain[t] \subseteq chain'[t]
               /\ \A v \in Trans : mIndex'[t][v] = 1 <=> mIndex[t][v] = 1
      BY <3>4, <2>1, <1>0, <1>4 DEF ListInv, Blocked
    <3> QED BY <3>1, <3>2, <3>3, <3>4, OwnWait
  <2>2. CASE u # t
    <3>1. mIndex'[u][h] = mIndex[u][h] \/ mIndex'[u][h] = 0
      BY <2>0, <2>2, Frame
    <3>2. mIndex[u][h] = 1 /\ u \in ToSet(q) /\ Blocked(u)
      BY <3>1, <2>2, <1>2, <1>3, <1>4, <1>0 DEF ListInv
    <3>3. CASE mStatus'[u] = mStatus[u]
      BY <3>2, <3>3 DEF Blocked
    <3>4. CASE FreeNext(t) /\ u = Head(recList[t]) /\ mIndex[u][t] = 1
      <4>1. h # t
        BY <3>4, <1>3, <1>4
      <4>2. InWait(u) /\ pc[t] = "free"
        BY <3>2, <3>4, <2>0 DEF WInv, ThreadInv, FreeNext
      <4>3. ~ ForTable(u)
        BY <3>4, <2>0, HeadLinked
      <4>4. ForRow(u)
        BY <4>2, <4>3, <2>0, <1>0 DEF TypeOK, WInv, ThreadInv, ForRow, ForTable
      <4>5. h = target[u].slot /\ t = target[u].slot
        BY <4>2, <4>4, <3>2, <3>4, <2>0 DEF WInv, RowInv
      <4> QED BY <4>1, <4>5
    <3>5. CASE \A v \in Trans : mIndex'[u][v] = 0
      BY <3>5, <1>4
    <3> QED BY <3>3, <3>4, <3>5, <2>0, <2>2, Effect
  <2> QED BY <2>1, <2>2
<1> QED BY <1>3, <1>4 DEF ListInv

\* Every step keeps the invariant.
LEMMA NextWaits ==
  ASSUME NoTableLink, WInv, [Next]_vars
  PROVE  WInv'
<1>1. TypeOK' /\ ItemInv'
  BY TypeStep, ItemStep
<1>2. ASSUME NEW t \in Trans
      PROVE  ThreadInv(t)' /\ EndInv(t)' /\ ChainInv(t)' /\ RowInv(t)' /\ ListInv(t)' /\ TableInv(t)'
  BY ThreadStep, EndStep, ChainStep, RowStep, ListStep, TableStep
<1> QED BY <1>1, <1>2 DEF WInv

-----------------------------------------------------------------------------
(* The deadlock check.                                                     *)

\* Those of D slept before the step and waited for each other as they do after it, and
\* nobody but s has gone on.
Undisturbed(D, s) ==
  /\ \A t \in D : Sleeps(t)
  /\ \A t, u \in D : Edge(t, u)' <=> Edge(t, u)
  /\ \A t \in D \ {s} : /\ pc'[t] = pc[t] /\ path'[t] = path[t] /\ chain'[t] = chain[t]
                        /\ \A u \in D : mIndex'[t][u] = mIndex[t][u]

\* Then one of a deadlock is still to find it, if s is not the only one, or goes on
\* seeking, or leaves behind a deadlock without itself.
LEMMA SeekersLeft ==
  ASSUME DeadlockInv, NEW D \in SUBSET Trans, Closed(D)', NEW s, Undisturbed(D, s),
         \A E \in SUBSET D : Closed(E) /\ s \in E /\ Seeker(s, E) =>
            Seeker(s, E)' \/ \E F \in SUBSET E : s \notin F /\ Closed(F)
  PROVE  Detectable(D)'
<1>1. /\ \A t \in D : Sleeps(t) /\ Sleeps(t)'
      /\ \A t, u \in D : Edge(t, u)' <=> Edge(t, u)
  BY DEF Closed, Undisturbed
<1>2. Closed(D)
  BY <1>1 DEF Closed
<1>3. ASSUME NEW E \in SUBSET D, Closed(E) PROVE Closed(E)'
  BY <1>1, <1>3 DEF Closed
<1>4. ASSUME NEW E \in SUBSET D, NEW w \in E, w # s, Seeker(w, E) PROVE Seeker(w, E)'
  <2>1. /\ pc'[w] = pc[w] /\ path'[w] = path[w] /\ chain'[w] = chain[w]
        /\ \A u \in E : mIndex'[w][u] = mIndex[w][u]
    BY <1>4 DEF Undisturbed
  <2>2. \A i, j \in E : Edge(i, j)' <=> Edge(i, j)
    BY <1>1
  <2>3. CASE pc[w] = "suspended1" /\ \A i \in E : i \in chain[w] => mIndex[w][i] # 0
    BY <2>1, <2>3 DEF Seeker
  <2>4. CASE pc[w] = "check" /\ Searched(w, E)
    <3>1. Searched(w, E)'
      BY <2>1, <2>2, <2>4 DEF Searched
    <3> QED BY <3>1, <2>1, <2>4 DEF Seeker
  <2> QED BY <1>4, <2>3, <2>4 DEF Seeker
<1>5. PICK E \in SUBSET D : Closed(E) /\ \E w \in E : Seeker(w, E)
  BY <1>2 DEF DeadlockInv, Detectable
<1>6. PICK w \in E : Seeker(w, E)
  BY <1>5
<1>7. CASE w # s
  BY <1>3, <1>4, <1>5, <1>6, <1>7 DEF Detectable
<1>8. CASE w = s /\ Seeker(s, E)'
  BY <1>3, <1>5, <1>8 DEF Detectable
<1>9. ASSUME NEW F \in SUBSET E, s \notin F, Closed(F) PROVE Detectable(D)'
  <2>1. PICK G \in SUBSET F : Closed(G) /\ \E v \in G : Seeker(v, G)
    BY <1>9 DEF DeadlockInv, Detectable
  <2>2. PICK v \in G : Seeker(v, G)
    BY <2>1
  <2>3. v # s /\ G \in SUBSET D
    BY <1>9
  <2> QED BY <2>1, <2>2, <2>3, <1>3, <1>4 DEF Detectable
<1> QED BY <1>5, <1>6, <1>7, <1>8, <1>9

\* The step of s does not disturb the others that sleep.
LEMMA OthersSleep ==
  ASSUME WInv, NEW s \in Trans, Call(s) \/ Step(s), NEW r \in Trans \ {s}, Sleeps(r)'
  PROVE  /\ Sleeps(r) /\ pc'[r] = pc[r] /\ path'[r] = path[r] /\ chain'[r] = chain[r]
         /\ \A u \in Trans : u # s \/ Sleeps(s)' => mIndex'[r][u] = mIndex[r][u]
<1>0. TypeOK
  BY DEF WInv
<1>1. /\ pc'[r] = pc[r] /\ path'[r] = path[r] /\ chain'[r] = chain[r]
      /\ Blocked(r)' => Blocked(r)
  BY Frame
<1>2. Sleeps(r) /\ mStatus'[r] = "BLOCKED"
  BY <1>1 DEF Sleeps, Blocked
<1>3. Sleeps(s)' => ~ FreeNext(s) /\ ~ FreeColumn(s) /\ ~ GiveUpTable(s) /\ ~ FreeItems(s)
  <2>1. FreeNext(s) => pc'[s] \in {"free", "resumed"}
    BY <1>0 DEF TypeOK, FreeNext, GoTo
  <2>2. FreeColumn(s) \/ GiveUpTable(s) \/ FreeItems(s) => pc'[s] \in {"free", "run"}
    BY <1>0 DEF TypeOK, FreeColumn, GiveUpTable, FreeItems, GoTo
  <2> QED BY <2>1, <2>2 DEF Sleeps
<1>4. ASSUME NEW u \in Trans, u # s \/ Sleeps(s)' PROVE mIndex'[r][u] = mIndex[r][u]
  BY <1>2, <1>3, <1>4, Effect
<1> QED BY <1>1, <1>2, <1>4

LEMMA DeadlockStep ==
  ASSUME WInv, DeadlockInv, [Next]_vars
  PROVE  DeadlockInv'
<1>0. TypeOK
  BY DEF WInv
<1> SUFFICES ASSUME NEW D \in SUBSET Trans, Closed(D)' PROVE Detectable(D)'
  BY DEF DeadlockInv
<1>1. CASE UNCHANGED vars
  <2>1. mStatus' = mStatus /\ pc' = pc /\ chain' = chain /\ path' = path /\ mIndex' = mIndex
    BY <1>1 DEF vars
  <2>2. PICK s : s \notin D
    BY <1>0, WaitConstAssumption
  <2>3. Undisturbed(D, s)
    BY <2>1 DEF Undisturbed, Closed, Sleeps, Blocked, Edge
  <2>4. \A E \in SUBSET D : s \notin E
    BY <2>2
  <2> QED BY <2>3, <2>4, SeekersLeft
<1> SUFFICES ASSUME NEW s \in Trans, Call(s) \/ Step(s) PROVE Detectable(D)'
  BY <1>1 DEF Next
<1>2. \A t \in D : Sleeps(t)'
  BY DEF Closed
<1>3. ASSUME NEW t \in D \ {s}
      PROVE  /\ Sleeps(t) /\ pc'[t] = pc[t] /\ path'[t] = path[t] /\ chain'[t] = chain[t]
             /\ \A u \in D : mIndex'[t][u] = mIndex[t][u]
             /\ \A u \in D : Edge(t, u)' <=> Edge(t, u)
  <2>1. /\ Sleeps(t) /\ pc'[t] = pc[t] /\ path'[t] = path[t] /\ chain'[t] = chain[t]
        /\ \A u \in D : mIndex'[t][u] = mIndex[t][u]
    BY <1>2, OthersSleep
  <2> QED BY <2>1 DEF Edge
<1>4. CASE s \notin D
  <2>1. Undisturbed(D, s)
    BY <1>3, <1>4 DEF Undisturbed
  <2>2. \A E \in SUBSET D : s \notin E
    BY <1>4
  <2> QED BY <2>1, <2>2, SeekersLeft
\* s has just begun to wait, and has all its way before it.
<1>5. ASSUME s \in D, Register(s) \/ \E m \in AskedTable : WaitTable(s, m) PROVE Detectable(D)'
  <2>1. chain[s] = {} /\ \A u \in Trans : mIndex[s][u] = 0
    BY <1>5, OutsideClean DEF Register, WaitTable, InWait
  <2>2. pc'[s] = "suspended1"
    BY <1>5, <1>0 DEF TypeOK, Register, WaitTable, GoTo
  <2>3. \A i \in Trans : i \in chain'[s] => mIndex'[s][i] # 0
    <3>1. CASE Register(s)
      <4>1. PICK h \in Trans : h = target[s].slot
        BY <3>1 DEF Register, WInv, ThreadInv
      <4>2. /\ mIndex' = [mIndex EXCEPT ![s] = [mIndex[s] EXCEPT ![h] = 1]]
            /\ chain' = [chain EXCEPT ![s] = chain[s] \cup {h}]
        BY <4>1, <3>1, <1>0 DEF TypeOK, Register
      <4> QED BY <4>1, <4>2, <2>1, <1>0 DEF TypeOK
    <3>2. ASSUME NEW m \in AskedTable, WaitTable(s, m) PROVE \A i \in Trans : i \in chain'[s] => mIndex'[s][i] # 0
      <4>1. PICK A : A = ToSet(queue) \cup {u \in Trans : tbl[u] # "N"}
        OBVIOUS
      <4>2. /\ mIndex' = [mIndex EXCEPT ![s] = [u \in Trans |-> IF u \in A THEN 1 ELSE mIndex[s][u]]]
            /\ chain' = [chain EXCEPT ![s] = chain[s] \cup A]
        BY <4>1, <3>2, <1>0 DEF TypeOK, WaitTable
      <4> QED BY <4>2, <2>1, <1>0 DEF TypeOK
    <3> QED BY <1>5, <3>1, <3>2
  <2> QED BY <1>5, <2>2, <2>3 DEF Detectable, Seeker
\* s goes on waiting.
<1>6. ASSUME s \in D, InWait(s), UNCHANGED <<txVars, mStatus, recList, tableVars, want, target, cur>>,
             chain[s] \subseteq chain'[s], \A u \in Trans : mIndex'[s][u] = 1 <=> mIndex[s][u] = 1
      PROVE  Detectable(D)'
  <2>0. ChainInv(s) /\ ChainInv(s)'
    BY ChainStep DEF WInv
  <2>1. Blocked(s) /\ pc'[s] \in {"suspended1", "check", "suspended2"}
    BY <1>2, <1>6 DEF Sleeps, Blocked
  <2>2. \A u \in D : Edge(s, u)' <=> Edge(s, u)
    BY <1>6, <2>0 DEF Edge, ChainInv
  <2>3. ASSUME pc[s] # "giveUp" PROVE Undisturbed(D, s)
    <3>1. Sleeps(s)
      BY <2>1, <2>3, <1>6 DEF Sleeps, InWait
    <3>2. \A t \in D : Sleeps(t)
      BY <3>1, <1>3
    <3>3. \A t, u \in D : Edge(t, u)' <=> Edge(t, u)
      BY <2>2, <1>3
    <3> QED BY <3>2, <3>3, <1>3 DEF Undisturbed
  <2>4. CASE StartCheck(s)
    <3>1. /\ pc[s] = "suspended1" /\ pc'[s] = "check" /\ mIndex' = mIndex /\ chain' = chain
          /\ path'[s] = [len |-> 1, todo |-> chain[s], more |-> FALSE]
      BY <2>4, <1>0 DEF TypeOK, StartCheck, GoTo
    <3>2. \A u \in Trans : mIndex[s][u] \in Nat /\ mIndex[s][u] <= 1
      BY <3>1, <2>0, <1>0 DEF TypeOK, ChainInv
    <3>3. ASSUME NEW E \in SUBSET D, Seeker(s, E) PROVE Seeker(s, E)'
      <4>1. \A i \in E : i \in chain[s] => mIndex[s][i] # 0
        BY <3>1, <3>3 DEF Seeker
      <4>2. path'[s].len = 1 /\ path'[s].todo = chain[s]
        BY <3>1
      <4>3. ASSUME NEW i \in E, i \in chain'[s]
            PROVE  mIndex'[s][i] = 1 /\ i \in path'[s].todo /\ ~ (mIndex'[s][i] < path'[s].len)
        <5>1. i \in Trans /\ mIndex[s][i] # 0 /\ i \in chain[s]
          BY <4>1, <4>3, <3>1
        <5> QED BY <5>1, <3>1, <3>2, <4>2
      <4>4. Searched(s, E)'
        BY <4>2, <4>3 DEF Searched
      <4> QED BY <4>4, <3>1 DEF Seeker
    <3> QED BY <3>1, <3>3, <2>3, SeekersLeft
  <2>5. ASSUME NEW i \in Trans, VisitRow(s, i) PROVE Detectable(D)'
    <3>1. PICK new : new = IF mIndex[s][i] = path[s].len THEN Reached(s, i) ELSE {}
      OBVIOUS
    <3>2. PICK n \in Nat : n = path[s].len
      BY <1>0 DEF TypeOK
    <3>3. /\ mIndex' = [mIndex EXCEPT ![s] = [u \in Trans |-> IF u \in new THEN n + 1 ELSE mIndex[s][u]]]
          /\ chain' = [chain EXCEPT ![s] = chain[s] \cup new] /\ pc[s] = "check" /\ i \in path[s].todo
      BY <2>5, <3>1, <3>2, <1>0 DEF TypeOK, VisitRow
    <3>4. /\ chain'[s] = chain[s] \cup new
          /\ \A u \in Trans : mIndex'[s][u] = IF u \in new THEN n + 1 ELSE mIndex[s][u]
          /\ \A u \in new : u \notin chain[s]
      BY <3>1, <3>3, <1>0 DEF TypeOK, Reached
    <3>5. s \notin new
      <4>1. s \in new => pc'[s] = "giveUp"
        BY <3>1, <2>5, <1>0 DEF TypeOK, VisitRow, GoTo
      <4> QED BY <4>1, <2>1
    <3>6. pc'[s] = "check" /\ path'[s].len = n /\ path'[s].todo = path[s].todo \ {i}
      <4>a. PICK b \in BOOLEAN : b = (path[s].more \/ new # {})
        OBVIOUS
      <4>b. PICK p \in [len : 0 .. Cardinality(Trans), todo : SUBSET Trans, more : BOOLEAN] : p = path[s]
        BY <1>0 DEF TypeOK
      <4>1. path'[s] = [p EXCEPT !.todo = p.todo \ {i}, !.more = b] /\ pc' = pc
        BY <4>a, <4>b, <3>5, <3>1, <2>5, <1>0 DEF TypeOK, VisitRow
      <4> QED BY <4>1, <4>b, <3>2, <3>3
    <3>7. i # s
      BY <3>3, <2>0 DEF ChainInv
    <3>8. ASSUME NEW E \in SUBSET D, Seeker(s, E) PROVE Seeker(s, E)'
      <4>1. Searched(s, E)
        BY <3>3, <3>8 DEF Seeker
      <4>2. ASSUME NEW k \in E, k \in chain'[s]
            PROVE  /\ mIndex'[s][k] # 0
                   /\ \/ mIndex'[s][k] < path'[s].len
                      \/ mIndex'[s][k] = path'[s].len /\ k \notin path'[s].todo
                      => \A j \in E : Edge(k, j)' => j \in chain'[s]
        <5>0. k \in Trans
          OBVIOUS
        <5>1. CASE k \in new
          <6>1. mIndex'[s][k] = n + 1
            BY <5>0, <5>1, <3>4
          <6> QED BY <6>1, <3>2, <3>6
        <5>2. CASE k \notin new
          <6>1. mIndex'[s][k] = mIndex[s][k] /\ k \in chain[s] /\ k # s
            BY <5>0, <5>2, <4>2, <3>4, <3>3, <2>0 DEF ChainInv
          <6>2. mIndex[s][k] # 0
            BY <6>1, <4>1 DEF Searched
          <6>3. ASSUME \/ mIndex'[s][k] < path'[s].len
                       \/ mIndex'[s][k] = path'[s].len /\ k \notin path'[s].todo,
                       NEW j \in E, Edge(k, j)'
                PROVE  j \in chain'[s]
            <7>1. Edge(k, j)
              BY <6>1, <6>3, <1>3
            <7>2. CASE k = i /\ mIndex[s][k] = n
              <8>1. new = Reached(s, i)
                BY <7>2, <3>1, <3>2
              <8>2. j \in chain[s] \/ j \in new
                BY <8>1, <7>1, <7>2 DEF Reached, Edge
              <8> QED BY <8>2, <3>4
            <7>3. CASE ~ (k = i /\ mIndex[s][k] = n)
              <8>1. \/ mIndex[s][k] < path[s].len
                    \/ mIndex[s][k] = path[s].len /\ k \notin path[s].todo
                BY <7>3, <6>1, <6>3, <3>2, <3>6
              <8> QED BY <8>1, <7>1, <6>1, <4>1, <3>4 DEF Searched
            <7> QED BY <7>2, <7>3
          <6> QED BY <6>1, <6>2, <6>3
        <5> QED BY <5>1, <5>2
      <4>3. Searched(s, E)'
        BY <4>2 DEF Searched
      <4> QED BY <4>3, <3>6 DEF Seeker
    <3> QED BY <3>3, <3>8, <2>3, SeekersLeft
  <2>6. CASE EndPass(s)
    <3>1. pc[s] = "check" /\ mIndex' = mIndex /\ chain' = chain /\ path[s].todo = {}
      BY <2>6 DEF EndPass
    <3>2. PICK n \in Nat : n = path[s].len
      BY <1>0 DEF TypeOK
    <3>3. \A k \in Trans : mIndex[s][k] \in Nat
      BY <1>0 DEF TypeOK
    <3>4. CASE path[s].more
      <4>1. path[s].len + 1 < Cardinality(Trans)
        BY <3>1, <3>4, CheckRoom
      <4>2. path'[s] = [len |-> n + 1, todo |-> chain[s], more |-> FALSE] /\ pc' = pc
        BY <4>1, <3>2, <3>4, <2>6, <1>0 DEF TypeOK, EndPass
      <4>3. ASSUME NEW E \in SUBSET D, Seeker(s, E) PROVE Seeker(s, E)'
        <5>1. Searched(s, E)
          BY <3>1, <4>3 DEF Seeker
        <5>2. \A k, j \in E : Edge(k, j)' <=> Edge(k, j)
          BY <3>1 DEF Edge
        <5>3. path'[s].len = n + 1 /\ path'[s].todo = chain[s]
          BY <4>2
        <5>4. ASSUME NEW k \in E, k \in chain'[s]
              PROVE  /\ mIndex'[s][k] # 0
                     /\ \/ mIndex'[s][k] < path'[s].len
                        \/ mIndex'[s][k] = path'[s].len /\ k \notin path'[s].todo
                        => \A j \in E : Edge(k, j)' => j \in chain'[s]
          <6>1. k \in chain[s] /\ mIndex'[s][k] = mIndex[s][k] /\ mIndex[s][k] \in Nat /\ k \in path'[s].todo
            BY <3>1, <3>3, <5>3, <5>4
          <6>2. mIndex[s][k] # 0
            BY <6>1, <5>1 DEF Searched
          <6>3. ASSUME mIndex'[s][k] < n + 1 PROVE \A j \in E : Edge(k, j)' => j \in chain'[s]
            <7>1. mIndex[s][k] < path[s].len \/ (mIndex[s][k] = path[s].len /\ k \notin path[s].todo)
              BY <6>1, <6>3, <3>1, <3>2
            <7> QED BY <7>1, <6>1, <5>1, <5>2, <3>1 DEF Searched
          <6> QED BY <6>1, <6>2, <6>3, <5>3
        <5>5. Searched(s, E)'
          BY <5>4 DEF Searched
        <5> QED BY <5>5, <3>1, <4>2 DEF Seeker
      <4> QED BY <3>1, <4>3, <2>3, SeekersLeft
    \* All columns have been visited: s is not among what it has found.
    <3>5. CASE ~ path[s].more
      <4>1. \A k \in chain[s] : mIndex[s][k] <= n
        BY <3>1, <3>2, <3>5, <2>0 DEF ChainInv
      <4>2. ASSUME NEW E \in SUBSET D, Closed(E), s \in E, Seeker(s, E)
            PROVE  \E F \in SUBSET E : s \notin F /\ Closed(F)
        <5>1. Searched(s, E)
          BY <3>1, <4>2 DEF Seeker
        <5>2. PICK F \in SUBSET E : F = {k \in E : k \in chain[s]}
          OBVIOUS
        <5>3. s \notin F
          BY <5>2, <3>1, <2>0 DEF ChainInv
        <5>4. ASSUME NEW k \in F, NEW j \in E, Edge(k, j) PROVE j \in F
          <6>1. k \in Trans /\ k \in chain[s] /\ k \in E
            BY <5>2
          <6>2. mIndex[s][k] < path[s].len \/ (mIndex[s][k] = path[s].len /\ k \notin path[s].todo)
            BY <6>1, <4>1, <3>1, <3>2, <3>3
          <6> QED BY <6>1, <6>2, <5>1, <5>2, <5>4 DEF Searched
        <5>5. F # {}
          BY <4>2, <5>2 DEF Closed, Edge
        <5>6. Closed(F)
          BY <4>2, <5>4, <5>5 DEF Closed
        <5> QED BY <5>3, <5>6
      <4> QED BY <3>1, <4>2, <2>3, SeekersLeft
    <3> QED BY <3>4, <3>5
  <2>7. CASE TimeOut(s) \/ SessionEvent(s)
    BY <2>7, <2>1, <1>0 DEF TypeOK, TimeOut, SessionEvent, GoTo
  \* No other step is made in a wait and stays in it.
  <2>8. StartCheck(s) \/ EndPass(s) \/ (\E i \in Trans : VisitRow(s, i)) \/ TimeOut(s) \/ SessionEvent(s)
    <3>1. CASE TargetGone(s) \/ Woken(s) \/ EventBeforeWait(s) \/ GiveUpRow(s)
      <4>1. PICK to \in {"row", "run"} : Back(s, to)
        BY <3>1 DEF TargetGone, Woken, EventBeforeWait, GiveUpRow
      <4>2. pc'[s] \in {"row", "run"}
        BY <4>1, <1>0 DEF TypeOK, Back, GoTo
      <4> QED BY <4>2, <2>1
    <3>2. CASE Begin(s) \/ (\E r \in Rows : TakeRow(s, r) \/ MeetRow(s, r)) \/ Register(s)
               \/ (\E m \in AskedTable : GrantTable(s, m) \/ WaitTable(s, m))
      BY <3>2, <1>6 DEF InWait, Begin, TakeRow, MeetRow, LooksAt, Register, GrantTable, WaitTable
    <3>3. CASE (\E open \in BOOLEAN : Commit(s, open)) \/ (\E tid \in legacy[s] : CloseLegacy(s, tid)) \/ FreeItems(s)
               \/ FreeNext(s) \/ FreeColumn(s) \/ EndDone(s)
      BY <3>3, <1>6 DEF InWait, Commit, CloseLegacy, FreeItems, FreeNext, FreeColumn, EndDone
    <3>4. CASE GiveUpTable(s)
      BY <3>4, <2>1, <1>0 DEF TypeOK, GiveUpTable, GoTo
    <3> QED BY <3>1, <3>2, <3>3, <3>4 DEF Call, Step
  <2> QED BY <2>4, <2>5, <2>6, <2>7, <2>8
<1>7. s \in D => InWait(s)'
  BY <1>2 DEF Sleeps, InWait
<1> QED BY <1>4, <1>5, <1>6, <1>7, OwnWait

-----------------------------------------------------------------------------
(* The theorems.                                                           *)

\* Types, threads, the wait-for table, the lists, the queue and the way of every
\* deadlock check are as WInv and DeadlockInv say in every state, as long as
\* freeAllRecordLock comes upon nobody who waits for the table on its account.
THEOREM WaitsInvariance == Spec /\ []NoTableLink => [](WInv /\ DeadlockInv)
<1>1. Init => WInv /\ DeadlockInv
  BY InitWaits
<1>2. NoTableLink /\ (WInv /\ DeadlockInv) /\ [Next]_vars => (WInv /\ DeadlockInv)'
  BY NextWaits, DeadlockStep
<1> QED BY <1>1, <1>2, PTL DEF Spec

\* That it does not, if no slot has legacy transactions, or none takes table locks: the
\* end of a transaction then frees the table before the rows.
THEOREM OnlyLegacyLinks == NoLegacyBesideTable => (Spec => []NoTableLink)
<1> SUFFICES ASSUME NoLegacyBesideTable PROVE Spec => []NoTableLink
  OBVIOUS
<1>1. WInv => NoTableLink
  <2> SUFFICES ASSUME WInv, NEW t \in Trans, NEW w \in Trans, ToFree(t, w), ForTable(w)
               PROVE  mIndex[w][t] # 1
    BY DEF NoTableLink
  <2>1. pc[t] \in {"free", "resumed"}
    BY DEF ToFree
  <2>2. tbl[t] = "N" /\ want[t] = Nothing
    BY <2>1 DEF WInv, EndInv, ThreadInv, NoLegacyBesideTable
  <2>3. t \notin ToSet(queue)
    BY <2>2, QueuedWaits
  <2> QED BY <2>2, <2>3 DEF WInv, TableInv
<1>2. Init => WInv /\ DeadlockInv
  BY InitWaits
<1>3. NoTableLink /\ (WInv /\ DeadlockInv) /\ [Next]_vars => (WInv /\ DeadlockInv)'
  BY NextWaits, DeadlockStep
<1> QED BY <1>1, <1>2, <1>3, PTL DEF Spec

\* Every variable keeps its type: the TIDs their cycle, the path lengths of isCycle
\* the number of slots.
THEOREM WaitTypes == Spec /\ []NoTableLink => []TypeOK
<1>1. WInv => TypeOK
  BY DEF WInv
<1> QED BY <1>1, WaitsInvariance, PTL

\* registRecordLockWait and registTblLockWaitListByReq find the row of the waiter
\* empty, as they assert, whoever ended its last wait.
THEOREM RowsClean == Spec /\ []NoTableLink => []RowCleanOutsideWait
<1>1. WInv => RowCleanOutsideWait
  <2> SUFFICES ASSUME WInv, NEW t \in Trans, ~ Suspended(t), pc[t] \notin {"check", "giveUp"}
               PROVE  chain[t] = {} /\ \A u \in Trans : mIndex[t][u] = 0
    BY DEF RowCleanOutsideWait
  <2>1. ~ InWait(t)
    BY DEF Suspended, InWait
  <2> QED BY <2>1, OutsideClean
<1> QED BY <1>1, WaitsInvariance, PTL

\* No resume is lost: whoever sleeps for a row waits for a transaction that has not
\* ended, and is in its list with his column set when it gets to freeAllRecordLock.
THEOREM ResumesCome == Spec /\ []NoTableLink => []ResumeIsComing
<1>1. WInv => ResumeIsComing
  <2> SUFFICES ASSUME WInv, NEW t \in Trans, ForRow(t), mStatus[t] = "BLOCKED", Suspended(t)
               PROVE  LET h == target[t].slot IN
                      /\ mTransID[h] = target[t].tid /\ mStatus[h] # "END"
                      /\ mIndex[t][h] = 1
                      /\ t \in ToSet(recList[h])
    BY DEF ResumeIsComing
  <2>1. RowInv(t) /\ InWait(t) /\ Blocked(t)
    BY DEF WInv, Suspended, InWait, Blocked
  <2> QED BY <2>1 DEF RowInv
<1> QED BY <1>1, WaitsInvariance, PTL

\* Of transactions that keep each other waiting one has isCycle before it or finds
\* the way back to itself, though no mutex is common to their checks.
THEOREM NoDeadlockUndetected == Spec /\ []NoTableLink => []NoUndetectedDeadlock
<1>1. ASSUME WInv, DeadlockInv PROVE NoUndetectedDeadlock
  <2> SUFFICES ASSUME NEW D \in SUBSET Trans, D # {},
                      \A t \in D : /\ pc[t] = "suspended2" /\ mStatus[t] = "BLOCKED"
                                   /\ \E u \in D : Obstructs(u, t)
               PROVE  FALSE
    BY DEF NoUndetectedDeadlock
  <2>1. ASSUME NEW t \in D, NEW u \in D, Obstructs(u, t) PROVE Edge(t, u)
    <3>1. ThreadInv(t) /\ ChainInv(t) /\ RowInv(t) /\ TableInv(t) /\ InWait(t) /\ Blocked(t)
      BY <1>1 DEF WInv, InWait, Blocked
    <3>2. CASE ForRow(t) /\ u = target[t].slot
      BY <3>1, <3>2 DEF RowInv, Edge
    <3>3. CASE ForTable(t) /\ u # t /\ tbl[u] # "N"
      <4>1. mIndex[t][u] = 1
        BY <3>1, <3>3 DEF TableInv
      <4> QED BY <4>1, <3>1 DEF ChainInv, Edge
    <3>4. CASE ForTable(t) /\ u # t /\ Ahead(u, t)
      <4>1. mIndex[t][u] = 1
        BY <3>1, <3>4 DEF TableInv
      <4> QED BY <4>1, <3>1 DEF ChainInv, Edge
    <3> QED BY <2>1, <3>2, <3>3, <3>4 DEF Obstructs, Ahead
  <2>2. Closed(D)
    BY <2>1 DEF Closed, Sleeps, Blocked
  <2>3. \E E \in SUBSET D : \E w \in E : Seeker(w, E)
    BY <2>2, <1>1 DEF DeadlockInv, Detectable
  <2> QED BY <2>3 DEF Seeker
<1>2. WInv /\ DeadlockInv => NoUndetectedDeadlock
  BY <1>1
<1> QED BY <1>2, WaitsInvariance, PTL

\* A sleeping transaction is resumed when the transaction that it waits for has given
\* up its rows, or by the grant of the table; where a link of an earlier wait resumes
\* it, freeAllRecordLock has come upon it in a wait for the table.
THEOREM ResumesHaveReason == Spec /\ []NoTableLink => ResumedWithReason
<1> DEFINE A == \A t \in Trans :
                  Suspended(t) /\ mStatus[t] = "BLOCKED" /\ mStatus'[t] = "BEGIN" /\ Suspended(t)' =>
                    IF ForRow(t)
                    THEN /\ pc[target[t].slot] = "free"
                         /\ \A r \in Rows : owner[r] # target[t].slot
                    ELSE tbl'[t] = want[t]
<1>1. ASSUME WInv, NoTableLink, [Next]_vars PROVE A
  <2> SUFFICES ASSUME NEW t \in Trans, Suspended(t), mStatus[t] = "BLOCKED", mStatus'[t] = "BEGIN", Suspended(t)'
               PROVE  IF ForRow(t)
                      THEN /\ pc[target[t].slot] = "free"
                           /\ \A r \in Rows : owner[r] # target[t].slot
                      ELSE tbl'[t] = want[t]
    OBVIOUS
  <2>1. PICK s \in Trans : Call(s) \/ Step(s)
    BY <1>1 DEF Next, vars
  <2>2. s # t
    <3> SUFFICES ASSUME s = t PROVE FALSE
      OBVIOUS
    <3>1. InWait(t) /\ InWait(t)'
      BY DEF Suspended, InWait
    <3>2. ~ Register(t) /\ ~ (\E m \in AskedTable : WaitTable(t, m))
      BY DEF Suspended, Register, WaitTable
    <3>3. mStatus' = mStatus
      BY <1>1, <2>1, <3>1, <3>2, OwnWait
    <3> QED BY <3>3
  <2>3. CASE FreeNext(s) /\ t = Head(recList[s]) /\ mIndex[t][s] = 1
    <3>1. pc[s] = "free" /\ InWait(t)
      BY <2>3 DEF FreeNext, Suspended, InWait
    <3>2. ~ ForTable(t)
      BY <1>1, <2>3, HeadLinked
    <3>3. ForRow(t)
      BY <1>1, <3>1, <3>2 DEF WInv, TypeOK, ThreadInv, ForRow, ForTable
    <3>4. s = target[t].slot
      BY <1>1, <2>1, <2>3, <3>1, <3>3 DEF WInv, RowInv
    <3>5. \A r \in Rows : owner[r] # s
      BY <1>1, <2>1, <3>1 DEF WInv, EndInv
    <3> QED BY <3>1, <3>3, <3>4, <3>5
  <2>4. CASE t \in ToSet(queue) /\ tbl'[t] = want[t]
    <3>1. ~ ForRow(t)
      BY <1>1, <2>4, QueuedWaits
    <3> QED BY <2>4, <3>1
  <2> QED BY <1>1, <2>1, <2>2, <2>3, <2>4, Effect
<1>2. WInv /\ NoTableLink /\ [Next]_vars => A
  BY <1>1
<1>3. ResumedWithReason <=> [][A]_vars
  BY DEF ResumedWithReason
<1> HIDE DEF A
<1> QED BY <1>2, <1>3, WaitsInvariance, PTL DEF Spec

\* freeAllRecordLock resumes only transactions that are blocked, as smxTrans::resume
\* asserts.
THEOREM OnlyBlockedResumed == Spec /\ []NoTableLink => ResumedIsBlocked
<1> DEFINE A == \A t, w \in Trans :
                  cur[t] # w /\ cur'[t] = w /\ w # NoTrans => mStatus[w] = "BLOCKED"
<1>1. ASSUME WInv, [Next]_vars PROVE A
  <2> SUFFICES ASSUME NEW t \in Trans, NEW w \in Trans, cur[t] # w, cur'[t] = w, w # NoTrans
               PROVE  mStatus[w] = "BLOCKED"
    OBVIOUS
  <2>0. TypeOK /\ ListInv(t)
    BY <1>1 DEF WInv
  <2>1. PICK s \in Trans : Call(s) \/ Step(s)
    BY <1>1 DEF Next, vars
  <2>2. s = t
    BY <1>1, <2>1, Frame
  <2>3. FreeNext(t) /\ w = Head(recList[t]) /\ mIndex[w][t] = 1
    <3>1. CASE Begin(t) \/ (\E r \in Rows : TakeRow(t, r) \/ MeetRow(t, r)) \/ TargetGone(t) \/ Register(t)
               \/ Woken(t) \/ StartCheck(t) \/ EndPass(t) \/ (\E i \in Trans : VisitRow(t, i))
      BY <3>1 DEF Begin, TakeRow, MeetRow, TargetGone, Register, Woken, StartCheck, EndPass, VisitRow
    <3>2. CASE (\E open \in BOOLEAN : Commit(t, open)) \/ (\E tid \in legacy[t] : CloseLegacy(t, tid)) \/ TimeOut(t)
               \/ EventBeforeWait(t) \/ SessionEvent(t) \/ GiveUpRow(t) \/ EndDone(t)
               \/ (\E m \in AskedTable : GrantTable(t, m) \/ WaitTable(t, m)) \/ GiveUpTable(t) \/ FreeItems(t)
      BY <3>2 DEF Commit, CloseLegacy, TimeOut, EventBeforeWait, SessionEvent, GiveUpRow, EndDone, GrantTable,
                  WaitTable, GiveUpTable, FreeItems
    <3>3. CASE FreeColumn(t)
      BY <3>3, <2>0 DEF TypeOK, FreeColumn
    <3>4. CASE FreeNext(t)
      <4>1. PICK v : v = Head(recList[t])
        OBVIOUS
      <4>2. mIndex[v][t] = 1 /\ cur' = [cur EXCEPT ![t] = v]
        BY <3>4, <4>1 DEF FreeNext
      <4> QED BY <4>1, <4>2, <3>4, <2>0 DEF TypeOK
    <3> QED BY <2>1, <2>2, <3>1, <3>2, <3>3, <3>4 DEF Call, Step
  <2>4. w \in ToSet(recList[t])
    <3>1. PICK q \in Seq(Trans) : q = recList[t] /\ IsInjective(q)
      BY <2>0 DEF TypeOK, ListInv
    <3>2. q # <<>>
      BY <2>3, <3>1 DEF FreeNext
    <3> QED BY <2>3, <3>1, <3>2, SeqTail
  <2> QED BY <2>0, <2>3, <2>4 DEF ListInv, Blocked
<1>2. WInv /\ [Next]_vars => A
  BY <1>1
<1>3. ResumedIsBlocked <=> [][A]_vars
  BY DEF ResumedIsBlocked
<1> HIDE DEF A
<1> QED BY <1>2, <1>3, WaitsInvariance, PTL DEF Spec
=============================================================================
