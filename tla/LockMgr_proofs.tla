---------------------------- MODULE LockMgr_proofs ----------------------------
(***************************************************************************)
(* The invariant of LockMgrInv is inductive, for any number of             *)
(* transactions and items: one lemma per action.  Then what follows from   *)
(* it alone: group mode, light mode, mutual exclusion, and that the code   *)
(* implements TableLock.                                                   *)
(***************************************************************************)
EXTENDS LockMgrInv, QueueLemmas

-----------------------------------------------------------------------------
(* The order of the modes, the counts, the mask and the group mode.        *)

\* mConversionTBL never leaves the set of modes.
LEMMA ConversionType ==
  \A a, b \in Mode : Conversion(a, b) \in Mode
BY DEF Conversion, mConversionTBL, Mode

\* mCompatibleTBL is symmetric: lockTableInternal indexes it by the group mode
\* first, the wake-up by the requested mode first.
THEOREM CompatibleSymmetric ==
  \A a, b \in Mode : Compatible(a, b) <=> Compatible(b, a)
BY DEF Compatible, mCompatibleTBL, Mode

\* A mode is compatible with the conversion of two modes exactly if it is with
\* both: one group mode per item can stand for all its holders.
THEOREM ConversionCompatible ==
  \A a, b, c \in Mode :
     Compatible(Conversion(a, b), c) <=> Compatible(a, c) /\ Compatible(b, c)
BY DEF Compatible, Conversion, mCompatibleTBL, mConversionTBL, Mode

\* Adding the bit of a mode to a mask converts the mode decided for it: the
\* group mode extended by mConversionTBL when a lock is granted is the one
\* getDecision computes when a lock is released.
THEOREM DecisionAdds ==
  \A f \in SUBSET LockMode : \A m \in LockMode :
     Decision(f \cup {m}) = Conversion(Decision(f), m)
BY DEF Decision, Conversion, mConversionTBL, Mode, LockMode, HeavyMode

\* The modes are a lattice: Covers is its order, Conversion its join.
LEMMA CoversOrder ==
  \A a, b, c \in Mode :
    /\ Covers(a, a) /\ Covers(a, "N")
    /\ Covers(a, b) /\ Covers(b, c) => Covers(a, c)
    /\ Covers(Conversion(a, b), a) /\ Covers(Conversion(a, b), b)
    /\ Covers(a, b) /\ Covers(a, c) => Covers(a, Conversion(b, c))
    /\ Covers("N", b) => b = "N"
    /\ Conversion("N", b) = b
    /\ Conversion(a, b) = "N" => a = "N" /\ b = "N"
BY DEF Covers, Conversion, mConversionTBL, Mode

\* A mode that is compatible with the covering mode is compatible with the
\* covered one.
LEMMA CoversCompatible ==
  \A a, b, c \in Mode :
    Covers(a, b) /\ Compatible(a, c) => Compatible(b, c)
BY DEF Covers, Compatible, Conversion, mCompatibleTBL, mConversionTBL, Mode

\* Intent modes are compatible with each other, and so are their joins.
LEMMA IntentModes ==
  /\ IntentMode \subseteq LockMode
  /\ LockMode \subseteq Mode
  /\ \A a, b \in Mode \ HeavyMode :
       Compatible(a, b) /\ Conversion(a, b) \notin HeavyMode
  /\ \A a, b \in Mode : Covers(a, b) /\ a \notin HeavyMode => b \notin HeavyMode
  /\ \A m \in LockMode : m \in IntentMode <=> m \notin HeavyMode
BY DEF IntentMode, HeavyMode, LockMode, Mode, Compatible, Conversion, Covers,
       mCompatibleTBL, mConversionTBL

\* mDecisionTBL is the least mode that covers the modes of the mask.
LEMMA DecisionIsJoin ==
  ASSUME NEW f \in SUBSET LockMode
  PROVE  /\ Decision(f) \in Mode
         /\ \A m \in f : Covers(Decision(f), m)
         /\ \A h \in Mode : (\A m \in f : Covers(h, m)) => Covers(h, Decision(f))
         /\ f = {} <=> Decision(f) = "N"
         /\ Decision(f) \notin HeavyMode <=> f \cap HeavyMode = {}
         /\ \A m \in LockMode : f = {m} => Decision(f) = m
<1>1. Decision(f) \in Mode
  BY DEF Decision, Mode, LockMode
<1>2. \A m \in f : Covers(Decision(f), m)
  BY DEF Decision, Mode, LockMode, Covers, Conversion, mConversionTBL
<1>3. \A h \in Mode : (\A m \in f : Covers(h, m)) => Covers(h, Decision(f))
  BY DEF Decision, Mode, LockMode, Covers, Conversion, mConversionTBL
<1>4. f = {} <=> Decision(f) = "N"
  BY DEF Decision, Mode, LockMode
<1>5. Decision(f) \notin HeavyMode <=> f \cap HeavyMode = {}
  BY DEF Decision, Mode, LockMode, HeavyMode
<1>6. \A m \in LockMode : f = {m} => Decision(f) = m
  BY DEF Decision, Mode, LockMode
<1> QED BY <1>1, <1>2, <1>3, <1>4, <1>5, <1>6

\* A conversion seen by the mask and by the group mode.
LEMMA DecisionConverts ==
  ASSUME NEW f \in SUBSET LockMode, NEW a \in f, NEW m \in LockMode
  PROVE  /\ Decision((f \ {a}) \cup {Conversion(a, m)}) = Conversion(Decision(f), m)
         /\ Decision(f \cup {Conversion(a, m)}) = Conversion(Decision(f), m)
<1>1. Decision((f \ {a}) \cup {Conversion(a, m)}) = Conversion(Decision(f), m)
  BY DEF Decision, Mode, LockMode, Conversion, mConversionTBL
<1>2. Decision(f \cup {Conversion(a, m)}) = Conversion(Decision(f), m)
  BY DEF Decision, Mode, LockMode, Conversion, mConversionTBL
<1> QED BY <1>1, <1>2

-----------------------------------------------------------------------------
(* The summary of a grant list.                                            *)

\* One transaction t enters or leaves the grant list G, or changes its mode.
Moves(G, h, G2, h2, t, old, new, count) ==
  /\ G \in SUBSET Trans /\ t \in Trans
  /\ old \in Mode /\ new \in Mode
  /\ count \in [LockMode -> Nat]
  /\ \A u \in G : h[u] \in LockMode
  /\ old = IF t \in G THEN h[t] ELSE "N"
  /\ \A u \in G \ {t} : h2[u] = h[u]
  /\ h2[t] = new
  /\ Counted(count, G, h)
  /\ G2 = IF new = "N" THEN G \ {t} ELSE G \cup {t}

\* decTblLockModeAndTryUpdate and incTblLockModeAndUpdate keep the summary.
LEMMA MovedIsCounted ==
  ASSUME IsFiniteSet(Trans),
         NEW G, NEW h, NEW G2, NEW h2, NEW t, NEW old, NEW new, NEW count,
         Moves(G, h, G2, h2, t, old, new, count)
  PROVE  /\ Counted(CountMoved(count, old, new), G2, h2)
         /\ CountMoved(count, old, new) \in [LockMode -> Nat]
         /\ FlagMoved(MaskOf(G, h), count, old, new) = MaskOf(G2, h2)
<1>m. /\ G \in SUBSET Trans /\ t \in Trans
      /\ old \in Mode /\ new \in Mode
      /\ count \in [LockMode -> Nat]
      /\ \A u \in G : h[u] \in LockMode
      /\ old = IF t \in G THEN h[t] ELSE "N"
      /\ \A u \in G \ {t} : h2[u] = h[u]
      /\ h2[t] = new
      /\ Counted(count, G, h)
      /\ G2 = IF new = "N" THEN G \ {t} ELSE G \cup {t}
  BY DEF Moves
<1> USE <1>m
<1> DEFINE In(m)  == {u \in G : h[u] = m}
           In2(m) == {u \in G2 : h2[u] = m}
<1>0. /\ IsFiniteSet(G) /\ \A m : IsFiniteSet(In(m))
      /\ \A m : Cardinality(In(m)) \in Nat
  <2>1. IsFiniteSet(G)
    BY FS_Subset
  <2>2. \A m : In(m) \in SUBSET G
    OBVIOUS
  <2> HIDE DEF In
  <2>3. \A m : IsFiniteSet(In(m))
    BY <2>1, <2>2, FS_Subset
  <2> QED BY <2>1, <2>3, FS_CardinalityType
<1>1. ASSUME NEW m \in LockMode, m # old, m # new
      PROVE  In2(m) = In(m)
  BY <1>1 DEF LockMode
<1>2. ASSUME old \in LockMode, new # old
      PROVE  In2(old) = In(old) \ {t} /\ t \in In(old)
  BY <1>2 DEF LockMode
<1>3. ASSUME new \in LockMode, new # old
      PROVE  In2(new) = In(new) \cup {t} /\ t \notin In(new)
  BY <1>3 DEF LockMode
<1>4. ASSUME new = old, new \in LockMode
      PROVE  In2(new) = In(new)
  BY <1>4 DEF LockMode
<1>5. ASSUME NEW m \in LockMode
      PROVE  /\ CountMoved(count, old, new)[m] = Cardinality(In2(m))
             /\ CountMoved(count, old, new)[m] \in Nat
  <2>0. count[m] = Cardinality(In(m))
    BY DEF Counted
  <2> HIDE DEF In, In2
  <2>1. CASE m # old /\ m # new
    BY <2>0, <2>1, <1>0, <1>1 DEF CountMoved
  <2>2. CASE m = old /\ m # new
    <3>1. Cardinality(In2(m)) = Cardinality(In(m)) - 1
      BY <2>2, <1>0, <1>2, FS_RemoveElement
    <3>2. Cardinality(In(m)) # 0
      BY <2>2, <1>0, <1>2, FS_EmptySet
    <3> QED BY <2>0, <2>2, <3>1, <3>2, <1>0 DEF CountMoved
  <2>3. CASE m = new /\ m # old
    <3>1. Cardinality(In2(m)) = Cardinality(In(m)) + 1
      BY <2>3, <1>0, <1>3, FS_AddElement
    <3> QED BY <2>0, <2>3, <3>1, <1>0 DEF CountMoved
  <2>4. CASE m = new /\ m = old
    BY <2>0, <2>4, <1>0, <1>4 DEF CountMoved
  <2> QED BY <2>1, <2>2, <2>3, <2>4
<1>6. /\ Counted(CountMoved(count, old, new), G2, h2)
      /\ CountMoved(count, old, new) \in [LockMode -> Nat]
  BY <1>5 DEF Counted, CountMoved
<1>7. old # "N" => (count[old] = 1 <=> In(old) = {t})
  <2> SUFFICES ASSUME old # "N" PROVE count[old] = 1 <=> In(old) = {t}
    OBVIOUS
  <2>1. t \in In(old) /\ count[old] = Cardinality(In(old))
    BY DEF Counted, LockMode
  <2> HIDE DEF In
  <2> QED BY <2>1, <1>0, FS_Singleton
<1>8. FlagMoved(MaskOf(G, h), count, old, new) = MaskOf(G2, h2)
  <2>1. CASE old = "N"
    BY <2>1 DEF FlagMoved, MaskOf, LockMode
  <2>2. CASE old # "N" /\ In(old) = {t}
    <3>1. \A u \in G : h[u] = old => u = t
      BY <2>2
    <3> QED BY <2>2, <3>1, <1>7 DEF FlagMoved, MaskOf, LockMode
  <2>3. CASE old # "N" /\ In(old) # {t}
    <3>1. PICK v \in G : h[v] = old /\ v # t
      BY <2>3 DEF LockMode
    <3> QED BY <2>3, <3>1, <1>7 DEF FlagMoved, MaskOf, LockMode
  <2> QED BY <2>1, <2>2, <2>3
<1> QED BY <1>6, <1>8

-----------------------------------------------------------------------------
(* The request list and the slot list.                                     *)

\* A queue without members is empty.
LEMMA QueueEmpty ==
  /\ <<>> \in Seq(Trans) /\ IsInjective(<<>>) /\ ToSet(<<>>) = {}
  /\ \A q \in Seq(Trans) : ToSet(q) = {} <=> q = <<>>
BY SeqEmpty

\* addLockNodeToTail and addLockNodeToHead
LEMMA QueueAdd ==
  ASSUME NEW q \in Seq(Trans), IsInjective(q), NEW t \in Trans, t \notin ToSet(q)
  PROVE  /\ Append(q, t) \in Seq(Trans) /\ IsInjective(Append(q, t))
         /\ ToSet(Append(q, t)) = ToSet(q) \cup {t}
         /\ <<t>> \o q \in Seq(Trans) /\ IsInjective(<<t>> \o q)
         /\ ToSet(<<t>> \o q) = ToSet(q) \cup {t}
<1>0. \A k \in DOMAIN q : q[k] # t
  BY DEF ToSet
<1>1. /\ Append(q, t) \in Seq(Trans) /\ IsInjective(Append(q, t))
      /\ ToSet(Append(q, t)) = ToSet(q) \cup {t}
  BY SeqAppend
<1>2. Len(q) \in Nat /\ DOMAIN q = 1 .. Len(q)
  OBVIOUS
<1>4. /\ <<t>> \o q \in Seq(Trans)
      /\ DOMAIN (<<t>> \o q) = 1 .. Len(q) + 1
      /\ (<<t>> \o q)[1] = t
      /\ \A k \in 1 .. Len(q) : (<<t>> \o q)[k + 1] = q[k]
  <2>1. <<t>> \in Seq(Trans) /\ Len(<<t>>) = 1 /\ <<t>>[1] = t
    OBVIOUS
  <2>2. /\ <<t>> \o q \in Seq(Trans)
        /\ Len(<<t>> \o q) = 1 + Len(q)
        /\ \A k \in 1 .. 1 + Len(q) :
             (<<t>> \o q)[k] = IF k <= 1 THEN <<t>>[k] ELSE q[k - 1]
    BY <2>1, ConcatProperties
  <2> QED BY <2>1, <2>2, <1>2
<1>5. IsInjective(<<t>> \o q) /\ ToSet(<<t>> \o q) = ToSet(q) \cup {t}
  <2> DEFINE c == <<t>> \o q
  <2>1. \A k \in DOMAIN c : k = 1 \/ (k - 1 \in 1 .. Len(q) /\ c[k] = q[k - 1])
    BY <1>2, <1>4
  <2> HIDE DEF c
  <2>2. DOMAIN c = 1 .. Len(q) + 1 /\ c[1] = t /\ \A k \in 1 .. Len(q) : c[k + 1] = q[k]
    BY <1>4 DEF c
  <2>3. IsInjective(c)
    BY <1>0, <1>2, <2>1, <2>2 DEF IsInjective
  <2>4. ToSet(c) = ToSet(q) \cup {t}
    BY <1>2, <2>1, <2>2 DEF ToSet
  <2> QED BY <2>3, <2>4 DEF c
<1> QED BY <1>1, <1>4, <1>5

\* The tail of a queue without duplicates has all its members but the head.
LEMMA QueueTail ==
  ASSUME NEW q \in Seq(Trans), IsInjective(q), q # <<>>
  PROVE  /\ Head(q) \in Trans /\ Head(q) \in ToSet(q)
         /\ Tail(q) \in Seq(Trans) /\ IsInjective(Tail(q))
         /\ ToSet(Tail(q)) = ToSet(q) \ {Head(q)}
BY SeqTail

-----------------------------------------------------------------------------
(* The invariant: the initial state.                                       *)

\* initLockItem and initTransLockList establish the invariant.
LEMMA InitInv == Init => IInv
<1> SUFFICES ASSUME Init PROVE IInv
  OBVIOUS
<1>1. TypeOK
  BY QueueEmpty DEF Init, TypeOK, PC, Mode, LockMode, NoOp, Slot
<1>2. OpInv
  BY DEF Init, OpInv
<1>3. ASSUME NEW i \in Items PROVE ItemInv(i)
  <2>1. MutexItem(i) /\ ListMutexItem(i)
    BY ConstAssumption DEF Init, MutexItem, ListMutexItem, InLoop, HoldsListMutex
  <2>2. WaitItem(i) /\ NodeItem(i)
    BY QueueEmpty DEF Init, WaitItem, NodeItem, Waiting
  <2>3. LightItem(i) /\ TransitionItem(i) /\ HeavyItem(i)
    BY DEF Init, LightItem, TransitionItem, HeavyItem, Light, Scanned, ToLight, At,
           OnlyIntentHeld, HeavyMode
  <2> QED BY <2>1, <2>2, <2>3 DEF ItemInv
<1> QED BY <1>1, <1>2, <1>3 DEF IInv

-----------------------------------------------------------------------------
(* What a step leaves alone.                                               *)

\* Nothing about item i changes when its own variables stay and the threads
\* that move operate on other items.
LEMMA ItemKept ==
  ASSUME NEW i \in Items, ItemInv(i),
         mFlag'[i] = mFlag[i], mGrantLockMode'[i] = mGrantLockMode[i],
         mArrLockCount'[i] = mArrLockCount[i], grant'[i] = grant[i],
         request'[i] = request[i], mutex'[i] = mutex[i],
         \A u \in Trans :
           /\ held'[u][i] = held[u][i]
           /\ nodeFlag'[u][i] = nodeFlag[u][i]
           /\ \/ op[u].item # i /\ op'[u].item # i
              \/ /\ pc'[u] = pc[u] /\ op'[u] = op[u]
                 /\ mStatus'[u] = mStatus[u] /\ cvs'[u] = cvs[u] /\ scan'[u] = scan[u]
  PROVE  ItemInv(i)'
<1>1. MutexItem(i)'
  BY DEF ItemInv, MutexItem, InLoop
<1>2. WaitItem(i)'
  BY DEF ItemInv, WaitItem, Waiting
<1>3. NodeItem(i)'
  BY DEF ItemInv, NodeItem
<1>4. LightItem(i)'
  BY DEF ItemInv, LightItem, Light, OnlyIntentHeld
<1>5. /\ \A u \in Trans : Unseen(u, i)' <=> Unseen(u, i)
      /\ ToLight(i)' <=> ToLight(i)
      /\ Scanned(i)' <=> Scanned(i)
  BY DEF Unseen, ToLight, Scanned, At
<1>6. ListMutexItem(i)'
  BY <1>5 DEF ItemInv, ListMutexItem, HoldsListMutex, Light
<1>7. TransitionItem(i)'
  BY <1>5 DEF ItemInv, TransitionItem, WaitItem, OnlyIntentHeld
<1>8. HeavyItem(i)'
  <2>1. ModesOf(i)' = ModesOf(i)
    BY DEF ModesOf
  <2>2. {t \in Trans : held[t][i] # "N" /\ ~ Unseen(t, i)}' =
          {t \in Trans : held[t][i] # "N" /\ ~ Unseen(t, i)}
    BY <1>5
  <2> QED BY <1>5, <2>1, <2>2 DEF ItemInv, HeavyItem, Summary, Light
<1> QED BY <1>1, <1>2, <1>3, <1>4, <1>6, <1>7, <1>8 DEF ItemInv

\* The summary of an item stays right as long as its lists and holders stay.
LEMMA HeavyItemKept ==
  ASSUME NEW i \in Items, HeavyItem(i),
         mFlag'[i] = mFlag[i], mGrantLockMode'[i] = mGrantLockMode[i],
         mArrLockCount'[i] = mArrLockCount[i], grant'[i] = grant[i],
         \A u \in Trans : held'[u][i] = held[u][i],
         \A u \in Trans : Unseen(u, i)' <=> Unseen(u, i),
         ToLight(i) => ToLight(i)'
  PROVE  HeavyItem(i)'
<1>1. ModesOf(i)' = ModesOf(i)
  BY DEF ModesOf
<1>2. {t \in Trans : held[t][i] # "N" /\ ~ Unseen(t, i)}' =
        {t \in Trans : held[t][i] # "N" /\ ~ Unseen(t, i)}
  OBVIOUS
<1> QED BY <1>1, <1>2 DEF HeavyItem, Summary, Light

-----------------------------------------------------------------------------
(* Steps that only move a thread, into no loop.                            *)

\* The invariant of an item through a step that only moves one thread in its
\* code, leaving what item and thread know of each other intact.
LEMMA MoveItem ==
  ASSUME NEW i \in Items, ItemInv(i), NEW t \in Trans, pc' \in [Trans -> PC],
         UNCHANGED <<itemVars, mutex, held, nodeFlag, mStatus, cvs, scan>>,
         \A u \in Trans \ {t} : pc'[u] = pc[u] /\ op'[u] = op[u],
         ~ InLoop(t), ~ InLoop(t)',
         HoldsListMutex(t)' => Light(op'[t].item),
         \/ mStatus[t] = "BEGIN" /\ ~ Waiting(t)'
         \/ op'[t] = op[t] /\ Waiting(t)
  PROVE  ItemInv(i)'
<1>1. MutexItem(i)'
  BY DEF ItemInv, MutexItem, InLoop
<1>2. WaitItem(i)'
  BY DEF ItemInv, WaitItem, Waiting, itemVars
<1>3. NodeItem(i)' /\ LightItem(i)'
  BY DEF ItemInv, NodeItem, LightItem, Light, OnlyIntentHeld, itemVars
<1>4. /\ \A u \in Trans : Unseen(u, i)' <=> Unseen(u, i)
      /\ ToLight(i)' <=> ToLight(i)
      /\ Scanned(i)' <=> Scanned(i)
  BY DEF Unseen, ToLight, Scanned, At, InLoop
<1>5. ListMutexItem(i)'
  BY <1>4 DEF ItemInv, ListMutexItem, HoldsListMutex, Light, itemVars
<1>6. TransitionItem(i)'
  BY <1>4 DEF ItemInv, TransitionItem, WaitItem, OnlyIntentHeld, itemVars
<1>7. HeavyItem(i)'
  BY <1>4, HeavyItemKept DEF ItemInv, itemVars
<1> QED BY <1>1, <1>2, <1>3, <1>5, <1>6, <1>7 DEF ItemInv

\* Entering lockTable keeps the invariant: the choice of path reads one flag.
LEMMA LockTableInv ==
  ASSUME IInv, NEW t \in Trans, NEW i \in Items, NEW m \in AskedMode, LockTable(t, i, m)
  PROVE  IInv'
<1>1. TypeOK'
  BY ConstAssumption DEF IInv, TypeOK, LockTable, itemVars, nodeVars, waitVars, PC, LockMode
<1>2. OpInv'
  BY ConstAssumption DEF IInv, TypeOK, OpInv, LockTable, Slot, Waiting, InLoop
<1>3. ASSUME NEW j \in Items PROVE ItemInv(j)'
  <2>0. mStatus[t] = "BEGIN"
    BY DEF IInv, TypeOK, OpInv, LockTable, Waiting
  <2>1. /\ pc[t] = "run" /\ pc' \in [Trans -> PC]
        /\ op'[t].item = i
        /\ pc'[t] \in {"lightLock", "lock"} /\ (pc'[t] = "lightLock" => Light(i))
        /\ \A u \in Trans \ {t} : pc'[u] = pc[u] /\ op'[u] = op[u]
    BY <1>1 DEF IInv, TypeOK, LockTable
  <2>2. UNCHANGED <<itemVars, mutex, held, nodeFlag, mStatus, cvs, scan>>
    BY DEF LockTable, nodeVars
  <2> QED BY <2>0, <2>1, <2>2, MoveItem DEF IInv, InLoop, HoldsListMutex, Waiting
<1> QED BY <1>1, <1>2, <1>3 DEF IInv

\* Entering unlockTable for a slot keeps the invariant.
LEMMA UnlockSlotInv ==
  ASSUME IInv, NEW t \in Trans, NEW k \in DOMAIN slots[t], UnlockSlot(t, k)
  PROVE  IInv'
<1>0. slots[t][k] \in Slot
  BY DEF IInv, TypeOK
<1>1. TypeOK'
  BY <1>0 DEF IInv, TypeOK, UnlockSlot, itemVars, nodeVars, waitVars, PC, LockMode, Slot
<1>2. OpInv'
  BY <1>0 DEF IInv, TypeOK, OpInv, UnlockSlot, Slot, Waiting, InLoop
<1>3. ASSUME NEW j \in Items PROVE ItemInv(j)'
  <2>0. mStatus[t] = "BEGIN"
    BY DEF IInv, TypeOK, OpInv, UnlockSlot, Waiting
  <2>1. /\ pc[t] = "run" /\ pc' \in [Trans -> PC]
        /\ pc'[t] \in {"lightUnlock", "unlock"}
        /\ pc'[t] = "lightUnlock" => Light(op'[t].item)
        /\ \A u \in Trans \ {t} : pc'[u] = pc[u] /\ op'[u] = op[u]
    BY <1>0, <1>1 DEF IInv, TypeOK, UnlockSlot
  <2>2. UNCHANGED <<itemVars, mutex, held, nodeFlag, mStatus, cvs, scan>>
    BY DEF UnlockSlot, nodeVars
  <2> QED BY <2>0, <2>1, <2>2, MoveItem DEF IInv, InLoop, HoldsListMutex, Waiting
<1> QED BY <1>1, <1>2, <1>3 DEF IInv

\* The frame of smxTrans::end around its unlocks keeps the invariant.
LEMMA EndInv ==
  ASSUME IInv, NEW t \in Trans,
         EndTrans(t) \/ (\E i \in Items : UnlockNode(t, i)) \/ EndDone(t)
  PROVE  IInv'
<1>1. TypeOK'
  <2>1. CASE EndTrans(t)
    BY <2>1 DEF IInv, TypeOK, EndTrans, itemVars, nodeVars, waitVars, thrVars, PC
  <2>2. ASSUME NEW i \in Items, UnlockNode(t, i) PROVE TypeOK'
    BY <2>2 DEF IInv, TypeOK, UnlockNode, itemVars, nodeVars, waitVars, PC, Mode
  <2>3. CASE EndDone(t)
    <3>1. slots' \in [Trans -> Seq(Slot)]
      BY <2>3, EmptySeq DEF IInv, TypeOK, EndDone
    <3> QED BY <2>3, <3>1 DEF IInv, TypeOK, EndDone, itemVars, waitVars, thrVars, PC
  <2> QED BY <2>1, <2>2, <2>3
<1>2. /\ pc[t] \in {"run", "end"} /\ pc' \in [Trans -> PC]
      /\ pc'[t] \in {"run", "end", "lightUnlock", "unlock"}
      /\ pc'[t] = "lightUnlock" => Light(op'[t].item)
      /\ pc'[t] \in {"lightUnlock", "unlock"} => op'[t].item \in Items
      /\ mStatus[t] = "BEGIN" /\ mStatus' = mStatus
      /\ after'[t] = "run" \/ (after'[t] = "end" /\ pc'[t] \in {"lightUnlock", "unlock"})
      /\ \A u \in Trans \ {t} : pc'[u] = pc[u] /\ op'[u] = op[u] /\ after'[u] = after[u]
  <2>0. pc[t] \in {"run", "end"}
    BY DEF EndTrans, UnlockNode, EndDone
  <2>1. mStatus[t] = "BEGIN" /\ after[t] = "run"
    BY <2>0 DEF IInv, TypeOK, OpInv, Waiting, InLoop
  <2>2. CASE EndTrans(t)
    BY <1>1, <2>1, <2>2 DEF IInv, TypeOK, EndTrans, thrVars
  <2>3. ASSUME NEW i \in Items, UnlockNode(t, i)
        PROVE  /\ pc[t] = "end" /\ pc'[t] \in {"lightUnlock", "unlock"}
               /\ pc'[t] = "lightUnlock" => Light(op'[t].item)
               /\ op'[t].item \in Items /\ mStatus' = mStatus /\ after'[t] = "end"
               /\ \A u \in Trans \ {t} :
                    pc'[u] = pc[u] /\ op'[u] = op[u] /\ after'[u] = after[u]
    BY <2>3 DEF IInv, TypeOK, UnlockNode
  <2>4. CASE EndDone(t)
    BY <1>1, <2>1, <2>4 DEF IInv, TypeOK, EndDone, thrVars
  <2> QED BY <1>1, <2>1, <2>2, <2>3, <2>4 DEF TypeOK
<1>3. OpInv'
  BY <1>2 DEF IInv, TypeOK, OpInv, Waiting, InLoop
<1>4. ASSUME NEW j \in Items PROVE ItemInv(j)'
  <2>1. UNCHANGED <<itemVars, mutex, held, nodeFlag, mStatus, cvs, scan>>
    BY DEF EndTrans, UnlockNode, EndDone, nodeVars, thrVars
  <2> QED BY <1>2, <2>1, MoveItem DEF IInv, InLoop, HoldsListMutex, Waiting
<1> QED BY <1>1, <1>3, <1>4 DEF IInv

\* A deadlock check that finds nothing keeps the invariant.
LEMMA CheckDeadlockInv ==
  ASSUME IInv, NEW t \in Trans, CheckDeadlock(t)
  PROVE  IInv'
<1>1. TypeOK'
  BY DEF IInv, TypeOK, CheckDeadlock, itemVars, nodeVars, waitVars, thrVars, PC
<1>2. OpInv'
  BY DEF IInv, TypeOK, OpInv, CheckDeadlock, thrVars, Waiting, InLoop
<1>3. ASSUME NEW j \in Items PROVE ItemInv(j)'
  <2>1. /\ pc[t] = "wait" /\ pc' \in [Trans -> PC] /\ pc'[t] = "checked"
        /\ op' = op /\ \A u \in Trans \ {t} : pc'[u] = pc[u]
    BY <1>1 DEF IInv, TypeOK, CheckDeadlock, thrVars
  <2>2. UNCHANGED <<itemVars, mutex, held, nodeFlag, mStatus, cvs, scan>>
    BY DEF CheckDeadlock, nodeVars, thrVars
  <2> QED BY <2>1, <2>2, MoveItem DEF IInv, InLoop, HoldsListMutex, Waiting
<1> QED BY <1>1, <1>2, <1>3 DEF IInv

-----------------------------------------------------------------------------
(* Steps of a transaction that saw light mode.                             *)

\* The summary does not depend on the modes of those not in the grant list.
LEMMA SummaryOfOthers ==
  ASSUME NEW G, NEW h, NEW h2, NEW count, \A u \in G : h2[u] = h[u],
         Counted(count, G, h)
  PROVE  Counted(count, G, h2) /\ MaskOf(G, h2) = MaskOf(G, h)
<1>1. ASSUME NEW m \in LockMode
      PROVE  {u \in G : h2[u] = m} = {u \in G : h[u] = m}
  OBVIOUS
<1>2. Counted(count, G, h2)
  BY <1>1 DEF Counted
<1>3. MaskOf(G, h2) = MaskOf(G, h)
  BY DEF MaskOf
<1> QED BY <1>2, <1>3

\* The invariant of an item through a step that changes nothing but one
\* transaction's node, to an intent mode or none, while the item is in light
\* mode or its scan has not reached the transaction.
LEMMA LightStepItem ==
  ASSUME TypeOK, NEW i \in Items, ItemInv(i), NEW t \in Trans, NEW new \in Mode \ HeavyMode,
         pc' \in [Trans -> PC], UNCHANGED <<itemVars, mutex, mStatus, cvs, scan>>,
         \A u \in Trans \ {t} : /\ pc'[u] = pc[u] /\ op'[u] = op[u]
                                /\ held'[u][i] = held[u][i]
                                /\ nodeFlag'[u][i] = nodeFlag[u][i],
         held'[t][i] = new, \A m \in nodeFlag'[t][i] : Covers(new, m),
         ~ InLoop(t), ~ InLoop(t)', ~ HoldsListMutex(t)', ~ Waiting(t)',
         mStatus[t] = "BEGIN",
         Light(i) \/ Unseen(t, i)
  PROVE  ItemInv(i)'
<1>1. MutexItem(i)'
  BY DEF ItemInv, MutexItem, InLoop
<1>2. WaitItem(i)'
  BY DEF ItemInv, WaitItem, Waiting, itemVars
<1>3. NodeItem(i)' /\ LightItem(i)'
  BY DEF ItemInv, NodeItem, LightItem, Light, OnlyIntentHeld, itemVars
<1>4. /\ \A u \in Trans : Unseen(u, i)' <=> Unseen(u, i)
      /\ ToLight(i)' <=> ToLight(i)
      /\ Scanned(i)' <=> Scanned(i)
  BY DEF Unseen, ToLight, Scanned, At, InLoop
<1>5. ListMutexItem(i)'
  BY <1>4 DEF ItemInv, ListMutexItem, HoldsListMutex, Light, itemVars
<1>6. TransitionItem(i)'
  BY <1>4 DEF ItemInv, TransitionItem, WaitItem, OnlyIntentHeld, itemVars
<1>7. HeavyItem(i)'
  <2> SUFFICES ASSUME ~ Light(i), ~ ToLight(i)
               PROVE  Summary(i)'
    BY <1>4 DEF HeavyItem, Light, itemVars
  <2>1. Summary(i) /\ Unseen(t, i)
    BY DEF ItemInv, HeavyItem
  <2>2. grant[i] = {u \in Trans : held'[u][i] # "N" /\ ~ Unseen(u, i)}
    BY <2>1 DEF Summary
  <2>3. \A u \in grant[i] : ModesOf(i)'[u] = ModesOf(i)[u]
    BY <2>1 DEF Summary, ModesOf
  <2>4. /\ Counted(mArrLockCount[i], grant[i], ModesOf(i)')
        /\ MaskOf(grant[i], ModesOf(i)') = MaskOf(grant[i], ModesOf(i))
    <3>1. Counted(mArrLockCount[i], grant[i], ModesOf(i))
      BY <2>1 DEF Summary
    <3> QED BY <2>3, <3>1, SummaryOfOthers
  <2>5. grant'[i] = {u \in Trans : held'[u][i] # "N" /\ ~ Unseen(u, i)'}
    BY <1>4, <2>2 DEF itemVars
  <2> QED BY <2>1, <2>4, <2>5 DEF Summary, itemVars
<1> QED BY <1>1, <1>2, <1>3, <1>5, <1>6, <1>7 DEF ItemInv

\* A grant under the list mutex, or in an item found light, keeps the invariant.
LEMMA GrantLightInv ==
  ASSUME IInv, NEW t \in Trans, NEW i \in Items, op[t].item = i,
         LightLock(t) \/ LockInternalLight(t)
  PROVE  IInv'
<1> DEFINE new == Conversion(held[t][i], op[t].mode)
<1>1. /\ GrantLight(t) /\ pc[t] \in {"lightLock", "lock"}
      /\ op[t] \in Slot /\ op[t].mode \in IntentMode
      /\ mStatus[t] = "BEGIN"
      /\ pc[t] = "lock" => Light(i)
  BY DEF IInv, TypeOK, OpInv, LightLock, LockInternalLight, Slot, Waiting
<1>2. op[t].mode \in LockMode /\ op[t].mode \in Mode \ HeavyMode /\ held[t][i] \in Mode
  BY <1>1, IntentModes DEF IInv, TypeOK
<1>3. new \in Mode
  BY <1>2, ConversionType
<1>4. /\ held' = [held EXCEPT ![t][i] = new]
      /\ nodeFlag' = [nodeFlag EXCEPT ![t][i] = @ \cup {op[t].mode}]
      /\ slots' = [slots EXCEPT ![t] = Append(@, op[t])]
      /\ pc' = [pc EXCEPT ![t] = "run"] /\ op' = [op EXCEPT ![t] = NoOp]
      /\ UNCHANGED <<itemVars, mutex, waitVars, mStatus, cvs, scan, after>>
  BY <1>1 DEF GrantLight, AddLockSlot, Return
<1> HIDE DEF new
<1>5. TypeOK'
  <2>1. slots' \in [Trans -> Seq(Slot)]
    BY <1>1, <1>4, AppendProperties DEF IInv, TypeOK
  <2>2. held' \in [Trans -> [Items -> Mode]]
    BY <1>1, <1>3, <1>4 DEF IInv, TypeOK
  <2>3. nodeFlag' \in [Trans -> [Items -> SUBSET LockMode]]
    BY <1>1, <1>2, <1>4 DEF IInv, TypeOK
  <2>4. op' \in [Trans -> [item : Items \cup {NoItem}, mode : Mode]]
    BY <1>4 DEF IInv, TypeOK, NoOp, Mode
  <2> QED BY <1>4, <2>1, <2>2, <2>3, <2>4 DEF IInv, TypeOK, itemVars, waitVars, PC
<1>6. OpInv'
  BY <1>1, <1>4 DEF IInv, TypeOK, OpInv, Waiting, InLoop
<1>7. ItemInv(i)'
  <2>1. Light(i) \/ Unseen(t, i)
    BY <1>1 DEF IInv, ItemInv, ListMutexItem, HoldsListMutex
  <2>2. new \in Mode \ HeavyMode
    <3>1. held[t][i] \notin HeavyMode
      BY <2>1 DEF IInv, ItemInv, LightItem, TransitionItem, OnlyIntentHeld,
                  Unseen, Scanned
    <3> QED BY <1>2, <1>3, <3>1, IntentModes DEF new
  <2>3. \A m \in nodeFlag'[t][i] : Covers(new, m)
    <3>1. ASSUME NEW m \in nodeFlag[t][i]
          PROVE  Covers(held[t][i], m) /\ m \in Mode
      BY <1>1, IntentModes DEF IInv, TypeOK, ItemInv, NodeItem
    <3>2. Covers(new, held[t][i]) /\ Covers(new, op[t].mode)
      BY <1>2, CoversOrder DEF new
    <3>3. nodeFlag'[t][i] = nodeFlag[t][i] \cup {op[t].mode}
      BY <1>1, <1>4 DEF IInv, TypeOK
    <3> QED BY <1>2, <1>3, <3>1, <3>2, <3>3, CoversOrder
  <2>4. /\ held'[t][i] = new
        /\ \A u \in Trans \ {t} : /\ pc'[u] = pc[u] /\ op'[u] = op[u]
                                  /\ held'[u][i] = held[u][i]
                                  /\ nodeFlag'[u][i] = nodeFlag[u][i]
        /\ pc'[t] = "run" /\ pc' \in [Trans -> PC]
        /\ ~ InLoop(t) /\ ~ InLoop(t)' /\ ~ HoldsListMutex(t)' /\ ~ Waiting(t)'
    BY <1>1, <1>4, <1>5 DEF IInv, TypeOK, InLoop, HoldsListMutex, Waiting
  <2>5. UNCHANGED <<itemVars, mutex, mStatus, cvs, scan>>
    BY <1>4
  <2>6. TypeOK /\ ItemInv(i)
    BY DEF IInv
  <2> QED BY <1>1, <2>1, <2>2, <2>3, <2>4, <2>5, <2>6, LightStepItem
<1>8. ASSUME NEW j \in Items, j # i PROVE ItemInv(j)'
  BY <1>1, <1>4, <1>8, ItemKept, ConstAssumption DEF IInv, TypeOK, NoOp, itemVars
<1> QED BY <1>5, <1>6, <1>7, <1>8 DEF IInv

\* A node that gives up a slot, or all, keeps a mode that it had.
LEMMA ReleaseNodeFacts ==
  ASSUME TypeOK, NEW t \in Trans, NEW i \in Items, NodeItem(i), NEW m \in Mode,
         ReleaseNode(t, i, m),
         NEW new, new = Decision(Kept(t, i, m))
  PROVE  /\ new \in Mode /\ Covers(held[t][i], new)
         /\ new = "N" <=> Kept(t, i, m) = {}
         /\ held' = [held EXCEPT ![t][i] = new]
         /\ \A k \in nodeFlag'[t][i] : Covers(new, k)
         /\ \A u \in Trans, j \in Items :
              u # t \/ j # i =>
                held'[u][j] = held[u][j] /\ nodeFlag'[u][j] = nodeFlag[u][j]
         /\ held' \in [Trans -> [Items -> Mode]]
         /\ nodeFlag' \in [Trans -> [Items -> SUBSET LockMode]]
         /\ slots' \in [Trans -> Seq(Slot)]
<1> DEFINE kept == Kept(t, i, m)
<1>1. kept \subseteq nodeFlag[t][i] /\ kept \in SUBSET LockMode /\ held[t][i] \in Mode
  BY DEF Kept, TypeOK
<1>2. /\ held' = [held EXCEPT ![t][i] = new]
      /\ nodeFlag' = [nodeFlag EXCEPT ![t][i] = kept]
      /\ slots' = [slots EXCEPT ![t] = SlotRemoved(t, i, m)]
  BY DEF ReleaseNode
<1> HIDE DEF kept
<1>3. /\ new \in Mode
      /\ new = "N" <=> kept = {}
      /\ \A k \in kept : Covers(new, k)
  BY <1>1, DecisionIsJoin DEF kept
<1>4. Covers(held[t][i], new)
  <2>1. \A k \in kept : Covers(held[t][i], k)
    BY <1>1 DEF NodeItem
  <2> QED BY <1>1, <2>1, DecisionIsJoin DEF kept
<1>5. SlotRemoved(t, i, m) \in Seq(Slot)
  <2>1. slots[t] \in Seq(Slot)
    BY DEF TypeOK
  <2>2. CASE HasSlot(t, i, m)
    <3>1. PICK k \in DOMAIN slots[t] : slots[t][k] = [item |-> i, mode |-> m]
      BY <2>2 DEF HasSlot, ToSet
    <3>2. (CHOOSE n \in DOMAIN slots[t] : slots[t][n] = [item |-> i, mode |-> m])
            \in 1 .. Len(slots[t])
      BY <2>1, <3>1
    <3> QED BY <2>1, <2>2, <3>2, RemoveAtProperties DEF SlotRemoved
  <2>3. CASE ~ HasSlot(t, i, m)
    BY <2>1, <2>3 DEF SlotRemoved
  <2> QED BY <2>2, <2>3
<1>6. /\ held' \in [Trans -> [Items -> Mode]]
      /\ nodeFlag' \in [Trans -> [Items -> SUBSET LockMode]]
      /\ slots' \in [Trans -> Seq(Slot)]
  <2>1. Trans # {} /\ nodeFlag \in [Trans -> [Items -> SUBSET LockMode]]
    BY DEF TypeOK
  <2>2. nodeFlag' \in [Trans -> [Items -> SUBSET LockMode]]
    BY <1>1, <1>2, <2>1
  <2>3. held' \in [Trans -> [Items -> Mode]]
    BY <1>2, <1>3 DEF TypeOK
  <2>4. slots' \in [Trans -> Seq(Slot)]
    BY <1>2, <1>5 DEF TypeOK
  <2> QED BY <2>2, <2>3, <2>4
<1>7. /\ \A k \in nodeFlag'[t][i] : Covers(new, k)
      /\ \A u \in Trans, j \in Items :
           u # t \/ j # i =>
             held'[u][j] = held[u][j] /\ nodeFlag'[u][j] = nodeFlag[u][j]
  BY <1>2, <1>3 DEF TypeOK
<1> QED BY <1>2, <1>3, <1>4, <1>6, <1>7 DEF kept

\* A release that saw light mode keeps the invariant, a racing scan included.
LEMMA LightUnlockInv ==
  ASSUME IInv, NEW t \in Trans, NEW i \in Items, op[t].item = i, LightUnlock(t)
  PROVE  IInv'
<1> DEFINE new == Decision(Kept(t, i, op[t].mode))
<1>1. /\ pc[t] \in {"lightUnlock", "unlock"} /\ (pc[t] = "unlock" => Light(i))
      /\ ReleaseNode(t, i, op[t].mode) /\ op[t].mode \in Mode
      /\ pc' = [pc EXCEPT ![t] = after[t]] /\ op' = [op EXCEPT ![t] = NoOp]
      /\ after' = [after EXCEPT ![t] = "run"]
      /\ UNCHANGED <<itemVars, mutex, waitVars, mStatus, cvs, scan>>
      /\ mStatus[t] = "BEGIN"
  BY DEF LightUnlock, Return, IInv, TypeOK, OpInv, Waiting
<1>2. after[t] \in {"run", "end"}
  BY <1>1 DEF IInv, TypeOK, OpInv, InLoop
<1> HIDE DEF new
<1>3. /\ new \in Mode /\ Covers(held[t][i], new)
      /\ held' = [held EXCEPT ![t][i] = new]
      /\ \A k \in nodeFlag'[t][i] : Covers(new, k)
      /\ \A u \in Trans, j \in Items :
           u # t \/ j # i =>
             held'[u][j] = held[u][j] /\ nodeFlag'[u][j] = nodeFlag[u][j]
      /\ held' \in [Trans -> [Items -> Mode]]
      /\ nodeFlag' \in [Trans -> [Items -> SUBSET LockMode]]
      /\ slots' \in [Trans -> Seq(Slot)]
  BY <1>1, ReleaseNodeFacts DEF new, IInv, ItemInv
<1>4. TypeOK'
  BY <1>1, <1>2, <1>3 DEF IInv, TypeOK, NoOp, Mode, PC, itemVars, waitVars
<1>5. OpInv'
  BY <1>1, <1>2 DEF IInv, TypeOK, OpInv, Waiting, InLoop
<1>6. ItemInv(i)'
  <2>1. Light(i) \/ Unseen(t, i)
    BY <1>1 DEF IInv, ItemInv, ListMutexItem, HoldsListMutex
  <2>2. new \in Mode \ HeavyMode
    <3>1. held[t][i] \notin HeavyMode /\ held[t][i] \in Mode
      BY <2>1 DEF IInv, TypeOK, ItemInv, LightItem, TransitionItem, OnlyIntentHeld,
                  Unseen, Scanned
    <3> QED BY <1>3, <3>1, IntentModes
  <2>3. /\ held'[t][i] = new
        /\ \A u \in Trans \ {t} : /\ pc'[u] = pc[u] /\ op'[u] = op[u]
                                  /\ held'[u][i] = held[u][i]
                                  /\ nodeFlag'[u][i] = nodeFlag[u][i]
        /\ pc'[t] = after[t] /\ pc' \in [Trans -> PC]
        /\ ~ InLoop(t) /\ ~ InLoop(t)' /\ ~ HoldsListMutex(t)' /\ ~ Waiting(t)'
    BY <1>1, <1>2, <1>3, <1>4 DEF IInv, TypeOK, InLoop, HoldsListMutex, Waiting
  <2>4. UNCHANGED <<itemVars, mutex, mStatus, cvs, scan>> /\ TypeOK /\ ItemInv(i)
    BY <1>1 DEF IInv
  <2> QED BY <1>1, <1>3, <2>1, <2>2, <2>3, <2>4, LightStepItem
<1>7. ASSUME NEW j \in Items, j # i PROVE ItemInv(j)'
  BY <1>1, <1>3, <1>7, ItemKept, ConstAssumption DEF IInv, TypeOK, NoOp, itemVars
<1> QED BY <1>4, <1>5, <1>6, <1>7 DEF IInv

-----------------------------------------------------------------------------
(* The way out of light mode.                                              *)

\* The thread in a loop over an item is alone there.
LEMMA LoopAlone ==
  ASSUME NEW i \in Items, ItemInv(i), NEW t \in Trans, InLoop(t), op[t].item = i
  PROVE  /\ ~ Light(i) /\ mutex[i] = t
         /\ \A u \in Trans : InLoop(u) /\ op[u].item = i => u = t
         /\ \A u \in Trans : At(u, "scan", i) \/ At(u, "toLight", i) => u = t
BY ConstAssumption DEF ItemInv, MutexItem, LightItem, InLoop, At

\* No thread is in a loop over an item whose mutex is free.
LEMMA LoopNone ==
  ASSUME NEW i \in Items, ItemInv(i), mutex[i] = NoTrans
  PROVE  /\ \A u \in Trans : ~ (InLoop(u) /\ op[u].item = i)
         /\ ~ Scanned(i) /\ ~ ToLight(i)
         /\ \A u \in Trans : ~ Unseen(u, i)
BY ConstAssumption DEF ItemInv, MutexItem, InLoop, At, Scanned, ToLight, Unseen

\* What an exact summary says of an item: its holders have lock modes, all of
\* them in the mask, and it is not in light mode.
LEMMA SummaryFacts ==
  ASSUME TypeOK, NEW i \in Items, Summary(i)
  PROVE  /\ grant[i] \in SUBSET Trans
         /\ \A u \in grant[i] : ModesOf(i)[u] = held[u][i] /\ held[u][i] \in LockMode
         /\ mFlag[i] \in SUBSET LockMode
         /\ ~ Light(i)
         /\ \A u \in grant[i] : held[u][i] \in mFlag[i]
<1>1. /\ grant[i] \in SUBSET Trans
      /\ \A u \in grant[i] : ModesOf(i)[u] = held[u][i] /\ held[u][i] \in LockMode
  BY DEF TypeOK, Summary, ModesOf, LockMode
<1>2. mFlag[i] \in SUBSET LockMode /\ \A u \in grant[i] : held[u][i] \in mFlag[i]
  BY <1>1 DEF Summary, MaskOf
<1>3. ~ Light(i)
  BY <1>2 DEF Light, LockMode, Mode
<1> QED BY <1>1, <1>2, <1>3

\* SetGranted, with the grant list, for one transaction.
MovesItem(i, t, old, new) ==
  /\ i \in Items /\ t \in Trans /\ new \in Mode
  /\ Summary(i)
  /\ old = IF t \in grant[i] THEN held[t][i] ELSE "N"
  /\ \A u \in Trans \ {t} : held'[u][i] = held[u][i]
  /\ held'[t][i] = new
  /\ SetGranted(i, old, new)
  /\ grant'[i] = IF new = "N" THEN grant[i] \ {t} ELSE grant[i] \cup {t}

\* An exact summary stays exact when one node is granted, converted or released
\* by SetGranted with the list and group mode that go with it.
LEMMA ItemMoved ==
  ASSUME TypeOK, NEW i, NEW t, NEW old, NEW new, MovesItem(i, t, old, new)
  PROVE  /\ Counted(mArrLockCount'[i], grant'[i], ModesOf(i)')
         /\ mFlag'[i] = MaskOf(grant'[i], ModesOf(i)')
         /\ mFlag'[i] = FlagMoved(mFlag[i], mArrLockCount[i], old, new)
         /\ mFlag'[i] \in SUBSET LockMode
         /\ ~ Light(i)'
         /\ mArrLockCount' \in [Items -> [LockMode -> Nat]]
         /\ mFlag' \in [Items -> SUBSET (LockMode \cup {"LIGHT"})]
         /\ \A j \in Items \ {i} :
              mArrLockCount'[j] = mArrLockCount[j] /\ mFlag'[j] = mFlag[j]
<1> DEFINE h == ModesOf(i)
           h2 == [u \in Trans |-> held'[u][i]]
           G == grant[i]
           G2 == grant'[i]
           count == mArrLockCount[i]
<1>0. /\ i \in Items /\ t \in Trans /\ new \in Mode
      /\ Summary(i)
      /\ old = IF t \in grant[i] THEN held[t][i] ELSE "N"
      /\ \A u \in Trans \ {t} : held'[u][i] = held[u][i]
      /\ held'[t][i] = new
      /\ SetGranted(i, old, new)
      /\ grant'[i] = IF new = "N" THEN grant[i] \ {t} ELSE grant[i] \cup {t}
  BY DEF MovesItem
<1> USE <1>0
<1>1. /\ G \in SUBSET Trans /\ old \in Mode /\ count \in [LockMode -> Nat]
      /\ \A u \in G : h[u] \in LockMode
      /\ old = IF t \in G THEN h[t] ELSE "N"
      /\ \A u \in G \ {t} : h2[u] = h[u]
      /\ h2[t] = new
      /\ Counted(count, G, h) /\ mFlag[i] = MaskOf(G, h)
      /\ G2 = IF new = "N" THEN G \ {t} ELSE G \cup {t}
  <2>1. /\ G \in SUBSET Trans /\ \A u \in G : h[u] = held[u][i] /\ h[u] \in LockMode
    BY SummaryFacts
  <2>2. old \in Mode /\ count \in [LockMode -> Nat]
    BY DEF TypeOK, Mode
  <2>3. Counted(count, G, h) /\ mFlag[i] = MaskOf(G, h)
    BY DEF Summary
  <2>4. \A u \in Trans : h2[u] = held'[u][i]
    OBVIOUS
  <2> HIDE DEF h, h2
  <2> QED BY <2>1, <2>2, <2>3, <2>4
<1>2. /\ mArrLockCount' = [mArrLockCount EXCEPT ![i] = CountMoved(count, old, new)]
      /\ mFlag' = [mFlag EXCEPT ![i] = FlagMoved(mFlag[i], count, old, new)]
  BY DEF SetGranted
<1>3. ModesOf(i)' = h2
  BY DEF ModesOf
<1> HIDE DEF h, h2, G, G2, count
<1>4. /\ Counted(CountMoved(count, old, new), G2, h2)
      /\ CountMoved(count, old, new) \in [LockMode -> Nat]
      /\ FlagMoved(MaskOf(G, h), count, old, new) = MaskOf(G2, h2)
  <2>1. IsFiniteSet(Trans) /\ Moves(G, h, G2, h2, t, old, new, count)
    BY <1>1, ConstAssumption DEF Moves
  <2> QED BY <2>1, MovedIsCounted
<1>5. /\ mArrLockCount'[i] = CountMoved(count, old, new)
      /\ mFlag'[i] = FlagMoved(mFlag[i], count, old, new)
      /\ \A j \in Items \ {i} :
           mArrLockCount'[j] = mArrLockCount[j] /\ mFlag'[j] = mFlag[j]
  BY <1>2 DEF TypeOK
<1>6. mFlag'[i] \in SUBSET LockMode
  BY <1>1, <1>5 DEF FlagMoved, LockMode, MaskOf
<1>7. ~ Light(i)'
  BY <1>6 DEF Light, LockMode, Mode
<1>8. /\ mArrLockCount' \in [Items -> [LockMode -> Nat]]
      /\ mFlag' \in [Items -> SUBSET (LockMode \cup {"LIGHT"})]
  BY <1>2, <1>4, <1>5, <1>6 DEF TypeOK
<1> QED BY <1>1, <1>3, <1>4, <1>5, <1>6, <1>7, <1>8 DEF G, G2, count

\* The first DDL drops the light flag: the item starts with empty lists and
\* everybody still to be visited.
LEMMA BeginHeavyInv ==
  ASSUME IInv, NEW t \in Trans, NEW i \in Items, op[t].item = i, BeginHeavy(t)
  PROVE  IInv'
<1>1. /\ pc[t] = "lock" /\ Light(i)
      /\ mutex' = [mutex EXCEPT ![i] = t] /\ mFlag' = [mFlag EXCEPT ![i] = {}]
      /\ scan' = [scan EXCEPT ![t] = Trans] /\ pc' = [pc EXCEPT ![t] = "scan"]
      /\ UNCHANGED <<mGrantLockMode, mArrLockCount, grant, request, nodeVars,
                     waitVars, mStatus, op, cvs, after>>
  BY DEF BeginHeavy
<1>2. TypeOK'
  BY <1>1 DEF IInv, TypeOK, PC, nodeVars, waitVars
<1>3. OpInv'
  BY <1>1 DEF IInv, TypeOK, OpInv, Waiting, InLoop
<1>4. /\ mutex[i] = NoTrans /\ grant[i] = {} /\ request[i] = <<>>
      /\ mGrantLockMode[i] = "N" /\ mArrLockCount[i] = [m \in LockMode |-> 0]
      /\ OnlyIntentHeld(i)
      /\ \A u \in Trans : ~ (InLoop(u) /\ op[u].item = i)
      /\ mStatus[t] = "BEGIN"
  BY <1>1, LoopNone DEF IInv, ItemInv, LightItem, TypeOK, OpInv, Waiting
<1>5. ItemInv(i)'
  <2>1. MutexItem(i)'
    BY <1>1, <1>4, ConstAssumption DEF IInv, TypeOK, MutexItem, InLoop
  <2>2. WaitItem(i)' /\ NodeItem(i)'
    BY <1>1, <1>4 DEF IInv, TypeOK, ItemInv, WaitItem, NodeItem, Waiting, nodeVars
  <2>3. ~ Light(i)' /\ LightItem(i)'
    BY <1>1 DEF IInv, TypeOK, Light, LightItem
  <2>4. \A u \in Trans : Unseen(u, i)'
    BY <1>1 DEF IInv, TypeOK, Unseen, At
  <2>5. ListMutexItem(i)'
    BY <2>4 DEF ListMutexItem
  <2>6. ~ ToLight(i)'
    BY <1>1, <1>4 DEF IInv, TypeOK, ToLight, At, InLoop
  <2>7. TransitionItem(i)'
    BY <1>1, <1>4, <2>6 DEF TransitionItem, OnlyIntentHeld, nodeVars
  <2>8. Summary(i)'
    <3>1. grant'[i] = {} /\ mFlag'[i] = {} /\ Decision({}) = "N"
          /\ mArrLockCount'[i] = [m \in LockMode |-> 0] /\ mGrantLockMode'[i] = "N"
      BY <1>1, <1>4 DEF IInv, TypeOK, Decision
    <3>2. Counted(mArrLockCount'[i], {}, ModesOf(i)')
      BY <3>1, FS_EmptySet DEF Counted
    <3> QED BY <2>4, <3>1, <3>2 DEF Summary, MaskOf
  <2> QED BY <2>1, <2>2, <2>3, <2>5, <2>7, <2>8 DEF ItemInv, HeavyItem
<1>6. ASSUME NEW j \in Items, j # i PROVE ItemInv(j)'
  BY <1>1, <1>6, ItemKept DEF IInv, TypeOK, nodeVars
<1> QED BY <1>2, <1>3, <1>5, <1>6 DEF IInv

\* Among the threads only t scans item i.
LEMMA ScanAlone ==
  ASSUME NEW i \in Items, ItemInv(i), NEW t \in Trans, At(t, "scan", i)
  PROVE  /\ ~ Light(i) /\ ~ ToLight(i) /\ mutex[i] = t
         /\ \A u \in Trans : Unseen(u, i) <=> u \in scan[t]
         /\ Summary(i) /\ OnlyIntentHeld(i) /\ request[i] = <<>>
<1>1. InLoop(t) /\ op[t].item = i
  BY DEF At, InLoop
<1>2. /\ ~ Light(i) /\ mutex[i] = t
      /\ \A u \in Trans : At(u, "scan", i) \/ At(u, "toLight", i) => u = t
  BY <1>1, LoopAlone
<1>3. ~ ToLight(i)
  BY <1>2 DEF ToLight, At
<1> QED BY <1>2, <1>3 DEF Unseen, ItemInv, HeavyItem, TransitionItem, Scanned

\* Visiting one transaction's list extends the summary by its node.
LEMMA ScanInv ==
  ASSUME IInv, NEW t \in Trans, NEW s \in Trans, NEW i \in Items, op[t].item = i,
         Scan(t, s)
  PROVE  IInv'
<1> DEFINE new == held[s][i]
<1>1. /\ At(t, "scan", i) /\ s \in scan[t] /\ ~ HoldsListMutex(s)
      /\ scan' = [scan EXCEPT ![t] = @ \ {s}]
      /\ IF new = "N"
         THEN UNCHANGED itemVars
         ELSE /\ SetGranted(i, "N", new)
              /\ grant' = [grant EXCEPT ![i] = @ \cup {s}]
              /\ mGrantLockMode' = [mGrantLockMode EXCEPT ![i] = Conversion(@, new)]
              /\ request' = request
      /\ UNCHANGED <<mutex, nodeVars, waitVars, mStatus, op, cvs, after, pc>>
  BY DEF Scan, At
<1>2. /\ ~ Light(i) /\ ~ ToLight(i) /\ mutex[i] = t
      /\ \A u \in Trans : Unseen(u, i) <=> u \in scan[t]
      /\ Summary(i) /\ OnlyIntentHeld(i) /\ request[i] = <<>>
  BY <1>1, ScanAlone DEF IInv
<1>3. \A u \in Trans : Unseen(u, i)' <=> u \in scan[t] \ {s}
  <2>1. \A u \in Trans : At(u, "scan", i)' <=> At(u, "scan", i)
    BY <1>1 DEF At
  <2>2. \A u \in Trans : At(u, "scan", i) => u = t
    BY <1>1, LoopAlone DEF IInv, At, InLoop
  <2> QED BY <1>1, <2>1, <2>2 DEF Unseen, IInv, TypeOK
<1>4. /\ ToLight(i)' <=> ToLight(i)
      /\ held' = held /\ ModesOf(i)' = ModesOf(i) /\ s \notin grant[i]
      /\ request' = request
  BY <1>1, <1>2 DEF ToLight, At, nodeVars, ModesOf, Summary, itemVars
<1> HIDE DEF new
<1>5. /\ Summary(i)' /\ ~ Light(i)'
      /\ mFlag' \in [Items -> SUBSET (LockMode \cup {"LIGHT"})]
      /\ mArrLockCount' \in [Items -> [LockMode -> Nat]]
      /\ mGrantLockMode' \in [Items -> Mode]
      /\ grant' \in [Items -> SUBSET Trans]
      /\ \A j \in Items \ {i} :
           /\ mArrLockCount'[j] = mArrLockCount[j] /\ mFlag'[j] = mFlag[j]
           /\ mGrantLockMode'[j] = mGrantLockMode[j] /\ grant'[j] = grant[j]
  <2>1. CASE new = "N"
    <3>1. UNCHANGED itemVars
      BY <1>1, <2>1
    <3>2. grant[i] = {u \in Trans : held[u][i] # "N" /\ ~ Unseen(u, i)'}
      BY <1>2, <1>3, <2>1 DEF Summary, new
    <3>3. Summary(i)' /\ ~ Light(i)'
      BY <1>2, <1>4, <3>1, <3>2 DEF Summary, Light, itemVars
    <3> QED BY <3>1, <3>3 DEF IInv, TypeOK, itemVars
  <2>2. CASE new # "N"
    <3>0. new \in LockMode /\ new \in Mode
      BY <2>2 DEF new, IInv, TypeOK, LockMode
    <3>1. /\ SetGranted(i, "N", new)
          /\ grant' = [grant EXCEPT ![i] = @ \cup {s}]
          /\ mGrantLockMode' = [mGrantLockMode EXCEPT ![i] = Conversion(@, new)]
      BY <1>1, <2>2
    <3>2. grant'[i] = grant[i] \cup {s}
      BY <3>1 DEF IInv, TypeOK
    <3>3. /\ Counted(mArrLockCount'[i], grant'[i], ModesOf(i)')
          /\ mFlag'[i] = MaskOf(grant'[i], ModesOf(i)')
          /\ mFlag'[i] = FlagMoved(mFlag[i], mArrLockCount[i], "N", new)
          /\ ~ Light(i)'
          /\ mArrLockCount' \in [Items -> [LockMode -> Nat]]
          /\ mFlag' \in [Items -> SUBSET (LockMode \cup {"LIGHT"})]
          /\ \A j \in Items \ {i} :
               mArrLockCount'[j] = mArrLockCount[j] /\ mFlag'[j] = mFlag[j]
      <4>1. /\ held'[s][i] = new
            /\ \A u \in Trans \ {s} : held'[u][i] = held[u][i]
        BY <1>4 DEF new
      <4>2. TypeOK /\ MovesItem(i, s, "N", new)
        BY <1>2, <1>4, <2>2, <3>0, <3>1, <3>2, <4>1 DEF IInv, MovesItem
      <4> QED BY <4>2, ItemMoved
    <3>4. mGrantLockMode'[i] = Decision(mFlag'[i])
      <4>1. mFlag'[i] = mFlag[i] \cup {new} /\ mFlag[i] \in SUBSET LockMode
        BY <1>2, <2>2, <3>3, SummaryFacts DEF FlagMoved, IInv
      <4>2. mGrantLockMode'[i] = Conversion(Decision(mFlag[i]), new)
        BY <1>2, <3>1 DEF Summary, IInv, TypeOK
      <4> QED BY <3>0, <4>1, <4>2, DecisionAdds
    <3>5. grant'[i] = {u \in Trans : held'[u][i] # "N" /\ ~ Unseen(u, i)'}
      BY <1>2, <1>3, <1>4, <2>2, <3>2 DEF Summary, new
    <3>6. Summary(i)'
      BY <3>3, <3>4, <3>5 DEF Summary
    <3>7. mGrantLockMode' \in [Items -> Mode]
      BY <3>0, <3>1, ConversionType DEF IInv, TypeOK
    <3> QED BY <3>1, <3>3, <3>6, <3>7 DEF IInv, TypeOK
  <2> QED BY <2>1, <2>2
<1>6. TypeOK'
  BY <1>1, <1>4, <1>5 DEF IInv, TypeOK, nodeVars, waitVars
<1>7. OpInv'
  BY <1>1 DEF IInv, OpInv, Waiting, InLoop
<1>8. ItemInv(i)'
  <2>1. MutexItem(i)'
    BY <1>1 DEF IInv, ItemInv, MutexItem, InLoop
  <2>2. WaitItem(i)' /\ NodeItem(i)'
    BY <1>1, <1>4 DEF IInv, ItemInv, WaitItem, NodeItem, Waiting, nodeVars
  <2>3. LightItem(i)'
    BY <1>5 DEF LightItem
  <2>4. ListMutexItem(i)'
    BY <1>1, <1>2, <1>3 DEF IInv, ItemInv, ListMutexItem, HoldsListMutex
  <2>5. TransitionItem(i)'
    BY <1>2, <1>4 DEF TransitionItem, OnlyIntentHeld
  <2> QED BY <1>5, <2>1, <2>2, <2>3, <2>4, <2>5 DEF ItemInv, HeavyItem
<1>9. ASSUME NEW j \in Items, j # i PROVE ItemInv(j)'
  BY <1>1, <1>4, <1>5, <1>9, ItemKept DEF IInv, TypeOK, At, nodeVars
<1> QED BY <1>6, <1>7, <1>8, <1>9 DEF IInv

-----------------------------------------------------------------------------
(* A request is granted or queued.                                         *)

\* The group mode extended by the request is what the new mask decides.
LEMMA GroupMoved ==
  ASSUME NEW f \in SUBSET LockMode, NEW a \in Mode, a = "N" \/ a \in f,
         NEW m \in LockMode, NEW count
  PROVE  Decision(FlagMoved(f, count, a, Conversion(a, m))) = Conversion(Decision(f), m)
<1>0. m \in Mode /\ Conversion(a, m) \in Mode
  BY ConversionType DEF LockMode
<1>1. Conversion(a, m) # "N" /\ Conversion("N", m) = m
  BY <1>0, CoversOrder DEF LockMode
<1>2. CASE a = "N"
  BY <1>1, <1>2, DecisionAdds DEF FlagMoved
<1>3. CASE a # "N"
  <2>1. a \in f
    BY <1>3
  <2>2. \/ FlagMoved(f, count, a, Conversion(a, m)) = (f \ {a}) \cup {Conversion(a, m)}
        \/ FlagMoved(f, count, a, Conversion(a, m)) = f \cup {Conversion(a, m)}
    BY <1>1, <1>3 DEF FlagMoved
  <2> QED BY <2>1, <2>2, DecisionConverts
<1> QED BY <1>2, <1>3

\* When a request is decided, the item's lists are complete.
LEMMA AtDecisionFacts ==
  ASSUME IInv, NEW t \in Trans, NEW i \in Items, op[t].item = i, AtDecision(t)
  PROVE  /\ op[t] \in Slot /\ op[t].mode \in LockMode /\ op[t].mode \in Mode
         /\ pc[t] \in {"lock", "scan"}
         /\ mStatus[t] = "BEGIN" /\ t \notin ToSet(request[i])
         /\ ~ Light(i) /\ ~ ToLight(i) /\ Summary(i)
         /\ \A u \in Trans : ~ Unseen(u, i)
         /\ \A u \in Trans \ {t} : ~ (InLoop(u) /\ op[u].item = i)
         /\ grant[i] = {u \in Trans : held[u][i] # "N"}
         /\ pc[t] = "scan" => request[i] = <<>> /\ OnlyIntentHeld(i)
         /\ mutex[i] = IF pc[t] = "scan" THEN t ELSE NoTrans
<1>1. /\ op[t] \in Slot /\ op[t].mode \in LockMode /\ pc[t] \in {"lock", "scan"}
      /\ mStatus[t] = "BEGIN" /\ t \notin ToSet(request[i])
  BY DEF AtDecision, IInv, OpInv, TypeOK, Waiting, Slot, ItemInv, WaitItem
<1>2. CASE pc[t] = "lock" /\ mutex[i] = NoTrans /\ ~ Light(i)
  <2>1. ItemInv(i)
    BY DEF IInv
  <2>2. /\ \A u \in Trans : ~ (InLoop(u) /\ op[u].item = i)
        /\ ~ ToLight(i) /\ \A u \in Trans : ~ Unseen(u, i)
    BY <1>2, <2>1, LoopNone
  <2>3. Summary(i)
    BY <1>2, <2>1, <2>2 DEF ItemInv, HeavyItem
  <2> QED BY <1>1, <1>2, <2>2, <2>3 DEF Summary, LockMode
<1>3. CASE pc[t] = "scan" /\ scan[t] = {}
  <2>1. ItemInv(i) /\ At(t, "scan", i)
    BY <1>3 DEF IInv, At
  <2>2. /\ ~ Light(i) /\ ~ ToLight(i) /\ mutex[i] = t
        /\ \A u \in Trans : Unseen(u, i) <=> u \in scan[t]
        /\ Summary(i) /\ OnlyIntentHeld(i) /\ request[i] = <<>>
    BY <2>1, ScanAlone
  <2>3. \A u \in Trans \ {t} : ~ (InLoop(u) /\ op[u].item = i)
    BY <1>3, <2>1, LoopAlone DEF InLoop
  <2> QED BY <1>1, <1>3, <2>2, <2>3 DEF Summary, LockMode
<1> QED BY <1>2, <1>3 DEF AtDecision, MutexFree

\* A grant from the group mode, or in place for a sole holder.
LEMMA GrantHeavyInv ==
  ASSUME IInv, NEW t \in Trans, NEW i \in Items, op[t].item = i, GrantHeavy(t)
  PROVE  IInv'
<1> DEFINE m == op[t].mode
           old == held[t][i]
           new == Conversion(held[t][i], op[t].mode)
<1>1. /\ SetGranted(i, old, new)
      /\ grant' = [grant EXCEPT ![i] = @ \cup {t}]
      /\ mGrantLockMode' = [mGrantLockMode EXCEPT ![i] = Conversion(@, m)]
      /\ held' = [held EXCEPT ![t][i] = new]
      /\ nodeFlag' = [nodeFlag EXCEPT ![t][i] = @ \cup {m}]
      /\ slots' = [slots EXCEPT ![t] = Append(@, op[t])]
      /\ mutex' = [mutex EXCEPT ![i] = NoTrans]
      /\ pc' = [pc EXCEPT ![t] = "run"] /\ op' = [op EXCEPT ![t] = NoOp]
      /\ UNCHANGED <<request, waitVars, mStatus, cvs, scan, after>>
  BY DEF GrantHeavy, AddLockSlot, Return
<1>2. /\ op[t] \in Slot /\ m \in LockMode /\ m \in Mode
      /\ pc[t] \in {"lock", "scan"}
      /\ mStatus[t] = "BEGIN" /\ t \notin ToSet(request[i])
      /\ ~ Light(i) /\ Summary(i)
      /\ \A u \in Trans \ {t} : ~ (InLoop(u) /\ op[u].item = i)
      /\ \A u \in Trans : ~ Unseen(u, i)
      /\ grant[i] = {u \in Trans : held[u][i] # "N"}
  BY AtDecisionFacts DEF GrantHeavy
<1>3. /\ old \in Mode /\ new \in Mode /\ new # "N"
      /\ Covers(new, old) /\ Covers(new, m)
  <2>1. old \in Mode /\ m # "N"
    BY <1>2 DEF IInv, TypeOK, LockMode
  <2> HIDE DEF old, m
  <2>2. Conversion(old, m) \in Mode /\ Conversion(old, m) # "N"
        /\ Covers(Conversion(old, m), old) /\ Covers(Conversion(old, m), m)
    BY <1>2, <2>1, ConversionType, CoversOrder
  <2> QED BY <2>1, <2>2 DEF old, m
<1>4. /\ held'[t][i] = new
      /\ \A u \in Trans, j \in Items : u # t \/ j # i =>
           held'[u][j] = held[u][j] /\ nodeFlag'[u][j] = nodeFlag[u][j]
      /\ nodeFlag'[t][i] = nodeFlag[t][i] \cup {m}
      /\ grant'[i] = grant[i] \cup {t}
      /\ mGrantLockMode'[i] = Conversion(mGrantLockMode[i], m)
  BY <1>1 DEF IInv, TypeOK
<1> HIDE DEF new, old, m
<1>5. /\ Counted(mArrLockCount'[i], grant'[i], ModesOf(i)')
      /\ mFlag'[i] = MaskOf(grant'[i], ModesOf(i)')
      /\ mFlag'[i] = FlagMoved(mFlag[i], mArrLockCount[i], old, new)
      /\ ~ Light(i)'
      /\ mArrLockCount' \in [Items -> [LockMode -> Nat]]
      /\ mFlag' \in [Items -> SUBSET (LockMode \cup {"LIGHT"})]
      /\ \A j \in Items \ {i} :
           mArrLockCount'[j] = mArrLockCount[j] /\ mFlag'[j] = mFlag[j]
  <2>1. MovesItem(i, t, old, new)
    BY <1>1, <1>2, <1>3, <1>4 DEF MovesItem, old
  <2> QED BY <2>1, ItemMoved DEF IInv
<1>6. mGrantLockMode'[i] = Decision(mFlag'[i])
  <2>1. mFlag[i] \in SUBSET LockMode /\ (old = "N" \/ old \in mFlag[i])
    BY <1>2, SummaryFacts DEF IInv, old
  <2>2. Decision(FlagMoved(mFlag[i], mArrLockCount[i], old, Conversion(old, m))) =
          Conversion(Decision(mFlag[i]), m)
    BY <1>2, <1>3, <2>1, GroupMoved
  <2> QED BY <1>2, <1>4, <1>5, <2>2 DEF Summary, new, old, m
<1>7. TypeOK'
  <2>1. slots' \in [Trans -> Seq(Slot)]
    BY <1>1, <1>2, AppendProperties DEF IInv, TypeOK
  <2>2. held' \in [Trans -> [Items -> Mode]]
    BY <1>1, <1>3 DEF IInv, TypeOK
  <2>3. nodeFlag' \in [Trans -> [Items -> SUBSET LockMode]]
    BY <1>1, <1>2 DEF IInv, TypeOK
  <2>4. op' \in [Trans -> [item : Items \cup {NoItem}, mode : Mode]]
    BY <1>1 DEF IInv, TypeOK, NoOp, Mode
  <2>5. mGrantLockMode' \in [Items -> Mode]
    BY <1>1, <1>2, ConversionType DEF IInv, TypeOK
  <2> QED BY <1>1, <1>5, <2>1, <2>2, <2>3, <2>4, <2>5 DEF IInv, TypeOK, waitVars, PC
<1>8. OpInv'
  BY <1>1, <1>2 DEF IInv, TypeOK, OpInv, Waiting, InLoop
<1>9. ItemInv(i)'
  <2>0. pc'[t] = "run" /\ \A u \in Trans \ {t} : pc'[u] = pc[u] /\ op'[u] = op[u]
    BY <1>1 DEF IInv, TypeOK
  <2>1. /\ mutex'[i] = NoTrans
        /\ \A u \in Trans : ~ (InLoop(u)' /\ op'[u].item = i)
        /\ \A u \in Trans : ~ Unseen(u, i)'
        /\ ~ ToLight(i)' /\ ~ Scanned(i)'
    BY <1>1, <1>2, <2>0 DEF IInv, TypeOK, InLoop, Unseen, ToLight, Scanned, At
  <2>2. MutexItem(i)'
    BY <2>1, ConstAssumption DEF MutexItem
  <2>3. WaitItem(i)'
    BY <1>1, <1>2, <1>4, <2>0 DEF IInv, ItemInv, WaitItem, Waiting
  <2>4. NodeItem(i)'
    <3>1. ASSUME NEW k \in nodeFlag[t][i] PROVE Covers(new, k)
      <4>1. Covers(old, k) /\ k \in Mode
        BY <3>1, IntentModes DEF old, IInv, TypeOK, ItemInv, NodeItem
      <4> QED BY <1>3, <4>1, CoversOrder
    <3> QED BY <1>3, <1>4, <3>1 DEF IInv, ItemInv, NodeItem
  <2>5. LightItem(i)'
    BY <1>5 DEF LightItem
  <2>6. ListMutexItem(i)'
    BY <1>2, <2>0 DEF IInv, ItemInv, ListMutexItem, HoldsListMutex
  <2>7. TransitionItem(i)'
    BY <2>1 DEF TransitionItem
  <2>8. grant'[i] = {u \in Trans : held'[u][i] # "N" /\ ~ Unseen(u, i)'}
    BY <1>2, <1>3, <1>4, <2>1
  <2>9. HeavyItem(i)'
    BY <1>5, <1>6, <2>8 DEF HeavyItem, Summary
  <2> QED BY <2>2, <2>3, <2>4, <2>5, <2>6, <2>7, <2>9 DEF ItemInv
<1>10. ASSUME NEW j \in Items, j # i PROVE ItemInv(j)'
  BY <1>1, <1>4, <1>5, <1>10, ItemKept, ConstAssumption DEF IInv, TypeOK, NoOp
<1> QED BY <1>7, <1>8, <1>9, <1>10 DEF IInv

\* A queued request changes neither holders nor summary.
LEMMA BlockInv ==
  ASSUME IInv, NEW t \in Trans, NEW i \in Items, op[t].item = i, Block(t)
  PROVE  IInv'
<1> DEFINE q == IF held[t][i] # "N" THEN <<t>> \o request[i] ELSE Append(request[i], t)
<1>1. /\ request' = [request EXCEPT ![i] = q]
      /\ cvs' = [cvs EXCEPT ![t] = held[t][i] # "N"]
      /\ waitsFor' = [waitsFor EXCEPT ![t] = @ \cup (Blockers(t) \ chain[t])]
      /\ chain' = [chain EXCEPT ![t] = @ \cup Blockers(t)]
      /\ mStatus' = [mStatus EXCEPT ![t] = "BLOCKED"]
      /\ mutex' = [mutex EXCEPT ![i] = NoTrans]
      /\ pc' = [pc EXCEPT ![t] = "wait"]
      /\ UNCHANGED <<mFlag, mGrantLockMode, mArrLockCount, grant, nodeVars, op,
                     scan, after>>
  <2>1. request[i] \in Seq(Trans)
    BY DEF IInv, TypeOK
  <2> QED BY <2>1 DEF Block, IInv, TypeOK
<1>2. /\ op[t] \in Slot /\ pc[t] \in {"lock", "scan"}
      /\ mStatus[t] = "BEGIN" /\ t \notin ToSet(request[i])
      /\ ~ Light(i) /\ Summary(i)
      /\ \A u \in Trans \ {t} : ~ (InLoop(u) /\ op[u].item = i)
      /\ \A u \in Trans : ~ Unseen(u, i)
      /\ grant[i] = {u \in Trans : held[u][i] # "N"}
  BY AtDecisionFacts DEF Block
<1>3. q \in Seq(Trans) /\ IsInjective(q) /\ ToSet(q) = ToSet(request[i]) \cup {t}
  <2>1. request[i] \in Seq(Trans) /\ IsInjective(request[i])
    BY DEF IInv, TypeOK, ItemInv, WaitItem
  <2> QED BY <1>2, <2>1, QueueAdd
<1> HIDE DEF q
<1>4. TypeOK'
  <2>1. request' \in [Items -> Seq(Trans)]
    BY <1>1, <1>3 DEF IInv, TypeOK
  <2>2. Blockers(t) \subseteq Trans
    <3>1. ToSet(request[i]) \subseteq Trans
      BY <1>3 DEF ToSet
    <3> QED BY <1>2, <3>1 DEF Blockers
  <2>3. waitsFor' \in [Trans -> SUBSET Trans] /\ chain' \in [Trans -> SUBSET Trans]
    BY <1>1, <2>2 DEF IInv, TypeOK
  <2>4. cvs' \in [Trans -> BOOLEAN]
    BY <1>1 DEF IInv, TypeOK
  <2> QED BY <1>1, <2>1, <2>3, <2>4 DEF IInv, TypeOK, nodeVars, PC
<1>5. OpInv'
  BY <1>1, <1>2 DEF IInv, TypeOK, OpInv, Waiting, InLoop
<1>6. ItemInv(i)'
  <2>0. /\ pc'[t] = "wait" /\ \A u \in Trans \ {t} : pc'[u] = pc[u]
        /\ mStatus'[t] = "BLOCKED" /\ \A u \in Trans \ {t} : mStatus'[u] = mStatus[u]
        /\ \A u \in Trans \ {t} : cvs'[u] = cvs[u]
        /\ cvs'[t] <=> held[t][i] # "N"
        /\ op' = op /\ held' = held /\ nodeFlag' = nodeFlag
        /\ request'[i] = q
    BY <1>1 DEF IInv, TypeOK, nodeVars
  <2>1. /\ mutex'[i] = NoTrans
        /\ \A u \in Trans : ~ (InLoop(u)' /\ op'[u].item = i)
        /\ \A u \in Trans : ~ Unseen(u, i)'
        /\ ~ ToLight(i)' /\ ~ Scanned(i)'
    BY <1>1, <1>2, <2>0 DEF IInv, TypeOK, InLoop, Unseen, ToLight, Scanned, At
  <2>2. MutexItem(i)'
    BY <2>1, ConstAssumption DEF MutexItem
  <2>3. WaitItem(i)'
    BY <1>2, <1>3, <2>0 DEF IInv, ItemInv, WaitItem, Waiting
  <2>4. NodeItem(i)'
    BY <2>0 DEF IInv, ItemInv, NodeItem
  <2>5. ~ Light(i)' /\ LightItem(i)'
    BY <1>1, <1>2 DEF LightItem, Light
  <2>6. ListMutexItem(i)'
    BY <1>2, <2>0 DEF IInv, ItemInv, ListMutexItem, HoldsListMutex
  <2>7. TransitionItem(i)'
    BY <2>1 DEF TransitionItem
  <2>8. HeavyItem(i)'
    <3>1. ModesOf(i)' = ModesOf(i)
      BY <2>0 DEF ModesOf
    <3>2. grant[i] = {u \in Trans : held'[u][i] # "N" /\ ~ Unseen(u, i)'}
      BY <1>2, <2>0, <2>1
    <3> QED BY <1>1, <1>2, <3>1, <3>2 DEF HeavyItem, Summary
  <2> QED BY <2>2, <2>3, <2>4, <2>5, <2>6, <2>7, <2>8 DEF ItemInv
<1>7. ASSUME NEW j \in Items, j # i PROVE ItemInv(j)'
  BY <1>1, <1>7, ItemKept DEF IInv, TypeOK, nodeVars
<1> QED BY <1>4, <1>5, <1>6, <1>7 DEF IInv

-----------------------------------------------------------------------------
(* The way back to light mode, and the end of a critical section.          *)

\* toLightMode may take the grant list apart: only intent modes are left.
LEMMA UnlinkGrantsInv ==
  ASSUME IInv, NEW t \in Trans, NEW i \in Items, op[t].item = i,
         InLoop(t), UnlinkGrants(t), \A u \in Trans : ~ Unseen(u, i),
         OnlyIntentHeld(i),
         \A u \in Trans : u \in ToSet(request[i]) => op[u].mode \notin HeavyMode,
         UNCHANGED <<mFlag, mGrantLockMode, mArrLockCount, request, mutex,
                     nodeVars, chain, thrVars>>
  PROVE  IInv'
<1>1. /\ grant' = [grant EXCEPT ![i] = {}]
      /\ waitsFor' = ColumnsCleared(i, grant[i])
      /\ pc' = [pc EXCEPT ![t] = "toLight"]
  BY DEF UnlinkGrants
<1>2. /\ ~ Light(i) /\ mutex[i] = t
      /\ \A u \in Trans : InLoop(u) /\ op[u].item = i => u = t
  BY LoopAlone DEF IInv
<1>3. TypeOK'
  BY <1>1 DEF IInv, TypeOK, nodeVars, thrVars, PC, ColumnsCleared
<1>4. OpInv'
  BY <1>1 DEF IInv, TypeOK, OpInv, Waiting, InLoop, thrVars
<1>5. ItemInv(i)'
  <2>0. /\ pc'[t] = "toLight" /\ \A u \in Trans \ {t} : pc'[u] = pc[u]
        /\ op' = op /\ held' = held /\ nodeFlag' = nodeFlag /\ mStatus' = mStatus
        /\ cvs' = cvs
    BY <1>1 DEF IInv, TypeOK, nodeVars, thrVars
  <2>1. MutexItem(i)'
    BY <1>2, <2>0 DEF IInv, ItemInv, MutexItem, InLoop
  <2>2. WaitItem(i)' /\ NodeItem(i)'
    BY <2>0 DEF IInv, ItemInv, WaitItem, NodeItem, Waiting, InLoop
  <2>3. ToLight(i)' /\ ~ Light(i)' /\ LightItem(i)' /\ HeavyItem(i)'
    BY <1>2, <2>0 DEF LightItem, HeavyItem, Light, ToLight, At
  <2>4. ListMutexItem(i)'
    BY <1>2, <2>0 DEF IInv, ItemInv, ListMutexItem, HoldsListMutex
  <2>5. TransitionItem(i)'
    <3>1. ~ Scanned(i)'
      BY <1>2, <2>0 DEF Scanned, At, InLoop
    <3>2. grant'[i] = {}
      BY <1>1 DEF IInv, TypeOK
    <3> QED BY <2>0, <3>1, <3>2 DEF TransitionItem, OnlyIntentHeld
  <2> QED BY <2>1, <2>2, <2>3, <2>4, <2>5 DEF ItemInv
<1>6. ASSUME NEW j \in Items, j # i PROVE ItemInv(j)'
  BY <1>1, <1>6, ItemKept DEF IInv, TypeOK, nodeVars, thrVars
<1> QED BY <1>3, <1>4, <1>5, <1>6 DEF IInv

\* A request that may not wait leaves the item as it was, or on its way back to
\* light mode.
LEMMA NoWaitInv ==
  ASSUME IInv, NEW t \in Trans, NEW i \in Items, op[t].item = i, NoWait(t)
  PROVE  IInv'
<1>1. /\ UNCHANGED <<mFlag, mGrantLockMode, mArrLockCount, request, nodeVars,
                     chain, mStatus, cvs, scan, after>>
      /\ UNCHANGED mutex
      /\ AtDecision(t)
  BY DEF NoWait
<1>2. /\ op[t] \in Slot /\ pc[t] \in {"lock", "scan"}
      /\ mStatus[t] = "BEGIN"
      /\ \A u \in Trans : ~ Unseen(u, i)
      /\ pc[t] = "scan" => request[i] = <<>> /\ OnlyIntentHeld(i)
  BY <1>1, AtDecisionFacts
<1>3. CASE pc[t] = "scan"
  <2>1. UnlinkGrants(t) /\ op' = op /\ InLoop(t)
    BY <1>3 DEF NoWait, InLoop
  <2>2. \A u \in Trans : u \in ToSet(request[i]) => op[u].mode \notin HeavyMode
    BY <1>2, <1>3, QueueEmpty
  <2> QED BY <1>1, <1>2, <1>3, <2>1, <2>2, UnlinkGrantsInv DEF thrVars
<1>4. CASE pc[t] = "lock"
  <2>1. pc' = [pc EXCEPT ![t] = "run"] /\ op' = [op EXCEPT ![t] = NoOp]
        /\ UNCHANGED <<grant, waitsFor>>
    BY <1>4 DEF NoWait, Return
  <2>2. TypeOK'
    BY <1>1, <2>1 DEF IInv, TypeOK, nodeVars, PC, NoOp, Mode
  <2>3. OpInv'
    BY <1>1, <1>2, <1>4, <2>1 DEF IInv, TypeOK, OpInv, Waiting, InLoop
  <2>4. ASSUME NEW j \in Items PROVE ItemInv(j)'
    <3>1. /\ pc' \in [Trans -> PC] /\ pc'[t] = "run"
          /\ \A u \in Trans \ {t} : pc'[u] = pc[u] /\ op'[u] = op[u]
      BY <2>1, <2>2 DEF IInv, TypeOK
    <3>2. UNCHANGED <<itemVars, mutex, held, nodeFlag, mStatus, cvs, scan>>
      BY <1>1, <2>1 DEF itemVars, nodeVars
    <3> QED BY <1>2, <1>4, <3>1, <3>2, MoveItem DEF IInv, InLoop, HoldsListMutex, Waiting
  <2> QED BY <2>2, <2>3, <2>4 DEF IInv
<1> QED BY <1>2, <1>3, <1>4

\* A loop that is not the first DDL's scan has seen every list.
LEMMA LoopSummary ==
  ASSUME IInv, NEW t \in Trans, NEW i \in Items, op[t].item = i,
         pc[t] \in {"settle", "wakeup", "toLight"}
  PROVE  /\ ~ Light(i) /\ mutex[i] = t /\ mStatus[t] = "BEGIN"
         /\ \A u \in Trans : InLoop(u) /\ op[u].item = i => u = t
         /\ \A u \in Trans : ~ Unseen(u, i)
         /\ ~ Scanned(i)
         /\ pc[t] # "toLight" => ~ ToLight(i) /\ Summary(i)
<1>1. InLoop(t) /\ ItemInv(i) /\ mStatus[t] = "BEGIN"
  BY DEF IInv, TypeOK, OpInv, InLoop, Waiting
<1>2. /\ ~ Light(i) /\ mutex[i] = t
      /\ \A u \in Trans : InLoop(u) /\ op[u].item = i => u = t
      /\ \A u \in Trans : At(u, "scan", i) \/ At(u, "toLight", i) => u = t
  BY <1>1, LoopAlone
<1>3. (\A u \in Trans : ~ Unseen(u, i)) /\ ~ Scanned(i)
  BY <1>2 DEF Unseen, Scanned, At
<1>4. pc[t] # "toLight" => ~ ToLight(i)
  BY <1>2 DEF ToLight, At
<1> QED BY <1>1, <1>2, <1>3, <1>4 DEF ItemInv, HeavyItem

\* The choice after a release: light mode only without heavy holder or request.
LEMMA SettleInv ==
  ASSUME IInv, NEW t \in Trans, NEW i \in Items, op[t].item = i, Settle(t)
  PROVE  IInv'
<1>1. /\ pc[t] = "settle"
      /\ UNCHANGED <<mFlag, mGrantLockMode, mArrLockCount, request, mutex,
                     nodeVars, chain, thrVars>>
  BY DEF Settle
<1>2. /\ ~ Light(i) /\ mutex[i] = t /\ mStatus[t] = "BEGIN"
      /\ \A u \in Trans : InLoop(u) /\ op[u].item = i => u = t
      /\ \A u \in Trans : ~ Unseen(u, i)
      /\ ~ Scanned(i) /\ ~ ToLight(i) /\ Summary(i)
  BY <1>1, LoopSummary
<1>3. CASE OnlyIntent(i)
  <2>1. OnlyIntentHeld(i)
    <3>1. mFlag[i] \cap HeavyMode = {}
      <4>1. mFlag[i] \in SUBSET LockMode
        BY <1>2, SummaryFacts DEF IInv
      <4>2. Decision(mFlag[i]) \notin HeavyMode
        BY <1>2, <1>3 DEF OnlyIntent, Summary
      <4> QED BY <4>1, <4>2, DecisionIsJoin
    <3>2. \A u \in Trans : held[u][i] # "N" => held[u][i] \in mFlag[i]
      BY <1>2, SummaryFacts DEF IInv, Summary
    <3> QED BY <3>1, <3>2 DEF OnlyIntentHeld, HeavyMode
  <2>2. \A u \in Trans : u \in ToSet(request[i]) => op[u].mode \notin HeavyMode
    BY <1>3 DEF OnlyIntent, ToSet
  <2>3. UnlinkGrants(t) /\ InLoop(t)
    BY <1>1, <1>3 DEF Settle, InLoop
  <2> QED BY <1>1, <1>2, <2>1, <2>2, <2>3, UnlinkGrantsInv
<1>4. CASE ~ OnlyIntent(i)
  <2>1. pc' = [pc EXCEPT ![t] = "wakeup"] /\ UNCHANGED <<grant, waitsFor>>
    BY <1>4 DEF Settle
  <2>2. TypeOK'
    BY <1>1, <2>1 DEF IInv, TypeOK, nodeVars, thrVars, PC
  <2>3. OpInv'
    BY <1>1, <2>1 DEF IInv, TypeOK, OpInv, Waiting, InLoop, thrVars
  <2>4. ItemInv(i)'
    <3>0. /\ pc'[t] = "wakeup" /\ \A u \in Trans \ {t} : pc'[u] = pc[u]
          /\ op' = op /\ held' = held /\ nodeFlag' = nodeFlag /\ mStatus' = mStatus
          /\ cvs' = cvs /\ scan' = scan
      BY <1>1, <2>1 DEF IInv, TypeOK, nodeVars, thrVars
    <3>1. /\ \A u \in Trans : ~ Unseen(u, i)'
          /\ ~ Scanned(i)' /\ ~ ToLight(i)'
      BY <1>2, <3>0 DEF Unseen, Scanned, ToLight, At, InLoop
    <3>2. MutexItem(i)'
      BY <1>1, <1>2, <3>0 DEF IInv, ItemInv, MutexItem, InLoop
    <3>3. WaitItem(i)' /\ NodeItem(i)'
      BY <1>1, <3>0 DEF IInv, ItemInv, WaitItem, NodeItem, Waiting, InLoop
    <3>4. LightItem(i)'
      BY <1>1, <1>2 DEF LightItem, Light
    <3>5. ListMutexItem(i)'
      BY <1>1, <1>2, <3>0 DEF IInv, ItemInv, ListMutexItem, HoldsListMutex
    <3>6. TransitionItem(i)'
      BY <3>1 DEF TransitionItem
    <3>7. HeavyItem(i)'
      BY <1>1, <1>2, <2>1, <3>0, <3>1, HeavyItemKept DEF IInv, ItemInv
    <3> QED BY <3>2, <3>3, <3>4, <3>5, <3>6, <3>7 DEF ItemInv
  <2>5. ASSUME NEW j \in Items, j # i PROVE ItemInv(j)'
    BY <1>1, <2>1, <2>5, ItemKept DEF IInv, TypeOK, nodeVars, thrVars
  <2> QED BY <2>2, <2>3, <2>4, <2>5 DEF IInv
<1> QED BY <1>3, <1>4

\* The mutex is released; what remains to be said is about the item's lists.
LEMMA LeaveItem ==
  ASSUME IInv, NEW t \in Trans, NEW i \in Items, op[t].item = i,
         pc[t] \in {"wakeup", "toLight"}, Leave(t),
         UNCHANGED <<grant, request>>,
         mFlag' \in [Items -> SUBSET (LockMode \cup {"LIGHT"})],
         mGrantLockMode' \in [Items -> Mode],
         mArrLockCount' \in [Items -> [LockMode -> Nat]],
         \A j \in Items \ {i} :
           /\ mFlag'[j] = mFlag[j] /\ mGrantLockMode'[j] = mGrantLockMode[j]
           /\ mArrLockCount'[j] = mArrLockCount[j],
         ListMutexItem(i)',
         mutex'[i] = NoTrans => LightItem(i)' /\ HeavyItem(i)'
  PROVE  IInv'
<1>1. /\ mutex' = [mutex EXCEPT ![i] = NoTrans]
      /\ op' = [op EXCEPT ![t] = NoOp] /\ after' = [after EXCEPT ![t] = "run"]
      /\ pc' = [pc EXCEPT ![t] = IF after[t] = "abort" THEN "run" ELSE after[t]]
      /\ waitsFor' \in [Trans -> SUBSET Trans] /\ chain' \in [Trans -> SUBSET Trans]
      /\ UNCHANGED <<nodeVars, mStatus, cvs, scan>>
  BY DEF Leave, Return, ClearRow, IInv, TypeOK, waitVars
<1>2. (IF after[t] = "abort" THEN "run" ELSE after[t]) \in {"run", "end"}
  BY DEF IInv, TypeOK
<1>3. TypeOK'
  <2>1. op' \in [Trans -> [item : Items \cup {NoItem}, mode : Mode]]
    BY <1>1 DEF IInv, TypeOK, NoOp, Mode
  <2> QED BY <1>1, <1>2, <2>1 DEF IInv, TypeOK, nodeVars, PC
<1>4. OpInv'
  BY <1>1, <1>2 DEF IInv, TypeOK, OpInv, Waiting, InLoop
<1>5. /\ mStatus[t] = "BEGIN"
      /\ \A u \in Trans : InLoop(u) /\ op[u].item = i => u = t
  BY LoopSummary
<1>6. ItemInv(i)'
  <2>0. /\ pc'[t] \in {"run", "end"} /\ op'[t].item # i
        /\ \A u \in Trans \ {t} : pc'[u] = pc[u] /\ op'[u] = op[u]
        /\ held' = held /\ nodeFlag' = nodeFlag /\ mutex'[i] = NoTrans
        /\ mStatus' = mStatus /\ cvs' = cvs /\ scan' = scan
    BY <1>1, <1>2, ConstAssumption DEF IInv, TypeOK, nodeVars, NoOp
  <2>1. /\ \A u \in Trans : ~ (InLoop(u)' /\ op'[u].item = i)
        /\ ~ ToLight(i)' /\ ~ Scanned(i)'
    BY <1>5, <2>0 DEF InLoop, ToLight, Scanned, At
  <2>2. MutexItem(i)'
    BY <2>0, <2>1, ConstAssumption DEF MutexItem
  <2>3. WaitItem(i)' /\ NodeItem(i)'
    BY <1>5, <2>0 DEF IInv, ItemInv, WaitItem, NodeItem, Waiting
  <2>4. TransitionItem(i)'
    BY <2>1 DEF TransitionItem
  <2> QED BY <2>0, <2>2, <2>3, <2>4 DEF ItemInv
<1>7. ASSUME NEW j \in Items, j # i PROVE ItemInv(j)'
  BY <1>1, <1>7, ItemKept, ConstAssumption DEF IInv, TypeOK, nodeVars, NoOp
<1> QED BY <1>3, <1>4, <1>6, <1>7 DEF IInv

\* The wake-up loop stops and the mutex is released.
LEMMA WakeUpDoneInv ==
  ASSUME IInv, NEW t \in Trans, NEW i \in Items, op[t].item = i, WakeUpDone(t)
  PROVE  IInv'
<1>1. pc[t] = "wakeup" /\ Leave(t) /\ UNCHANGED itemVars
  BY DEF WakeUpDone
<1>2. /\ ~ Light(i) /\ mutex[i] = t
      /\ \A u \in Trans : InLoop(u) /\ op[u].item = i => u = t
      /\ \A u \in Trans : ~ Unseen(u, i)
      /\ ~ ToLight(i) /\ Summary(i)
  BY <1>1, LoopSummary
<1>3. /\ held' = held /\ scan' = scan
      /\ \A u \in Trans \ {t} : pc'[u] = pc[u] /\ op'[u] = op[u]
      /\ pc'[t] \in {"run", "end"}
  BY <1>1 DEF Leave, Return, IInv, TypeOK, nodeVars
<1>4. \A u \in Trans : ~ Unseen(u, i)'
  BY <1>2, <1>3 DEF Unseen, At, InLoop
<1>5. ~ Light(i)' /\ LightItem(i)'
  BY <1>1, <1>2 DEF LightItem, Light, itemVars
<1>6. ListMutexItem(i)'
  BY <1>2, <1>3 DEF IInv, ItemInv, ListMutexItem, HoldsListMutex
<1>7. HeavyItem(i)'
  BY <1>1, <1>2, <1>3, <1>4, HeavyItemKept DEF IInv, ItemInv, itemVars
<1> QED BY <1>1, <1>5, <1>6, <1>7, LeaveItem DEF IInv, TypeOK, itemVars

\* clearLockItem is called with both lists empty and only intent holders left.
LEMMA ToLightDoneInv ==
  ASSUME IInv, NEW t \in Trans, NEW i \in Items, op[t].item = i, ToLightDone(t)
  PROVE  IInv'
<1>1. /\ pc[t] = "toLight" /\ Leave(t) /\ request[i] = <<>>
      /\ mFlag' = [mFlag EXCEPT ![i] = {"LIGHT"}]
      /\ mGrantLockMode' = [mGrantLockMode EXCEPT ![i] = "N"]
      /\ mArrLockCount' = [mArrLockCount EXCEPT ![i] = [m \in LockMode |-> 0]]
      /\ UNCHANGED <<grant, request>>
  BY DEF ToLightDone
<1>2. OnlyIntentHeld(i) /\ grant[i] = {}
  BY <1>1 DEF IInv, ItemInv, TransitionItem, ToLight, At
<1>3. held' = held
  BY <1>1 DEF Leave, nodeVars
<1>4. /\ mFlag'[i] = {"LIGHT"} /\ mGrantLockMode'[i] = "N"
      /\ mArrLockCount'[i] = [m \in LockMode |-> 0]
      /\ mFlag' \in [Items -> SUBSET (LockMode \cup {"LIGHT"})]
      /\ mGrantLockMode' \in [Items -> Mode]
      /\ mArrLockCount' \in [Items -> [LockMode -> Nat]]
      /\ \A j \in Items \ {i} :
           /\ mFlag'[j] = mFlag[j] /\ mGrantLockMode'[j] = mGrantLockMode[j]
           /\ mArrLockCount'[j] = mArrLockCount[j]
  BY <1>1 DEF IInv, TypeOK, Mode
<1>5. Light(i)' /\ ListMutexItem(i)' /\ HeavyItem(i)'
  BY <1>4 DEF Light, ListMutexItem, HeavyItem
<1>6. mutex'[i] = NoTrans => LightItem(i)'
  BY <1>1, <1>2, <1>3, <1>4 DEF LightItem, OnlyIntentHeld
<1> QED BY <1>1, <1>4, <1>5, <1>6, LeaveItem

-----------------------------------------------------------------------------
(* A request is granted by the thread that unlocked.                       *)

ResumesHead(i, u, new) ==
  /\ request[i] # <<>> /\ u = Head(request[i]) /\ new \in Mode
  /\ Resume(u, i, new)

\* What Resume does, the head of the queue being blocked on this item.
Resumed(i, u, new) ==
  /\ u \in Trans /\ mStatus[u] = "BLOCKED" /\ Waiting(u)
  /\ op[u].item = i /\ op[u].mode \in LockMode /\ op[u].mode \in Mode
  /\ u \in ToSet(request[i])
  /\ cvs[u] <=> held[u][i] # "N"
  /\ \A v \in Trans : v \in ToSet(request'[i]) <=> v \in ToSet(request[i]) /\ v # u
  /\ IsInjective(request'[i])
  /\ held'[u][i] = new
  /\ \A v \in Trans, j \in Items : v # u \/ j # i =>
       held'[v][j] = held[v][j] /\ nodeFlag'[v][j] = nodeFlag[v][j]
  /\ nodeFlag'[u][i] = IF cvs[u] THEN nodeFlag[u][i] ELSE {op[u].mode}
  /\ mStatus'[u] = "BEGIN"
  /\ \A v \in Trans \ {u} : mStatus'[v] = mStatus[v]
  /\ \A j \in Items \ {i} : request'[j] = request[j]
  /\ UNCHANGED <<slots, chain, mutex, op, cvs, scan, after, pc>>
  /\ held' \in [Trans -> [Items -> Mode]]
  /\ nodeFlag' \in [Trans -> [Items -> SUBSET LockMode]]
  /\ request' \in [Items -> Seq(Trans)]
  /\ waitsFor' \in [Trans -> SUBSET Trans]
  /\ mStatus' \in [Trans -> {"BEGIN", "BLOCKED"}]

\* What taking the head off the queue and resuming it changes.
LEMMA ResumeFacts ==
  ASSUME IInv, NEW i \in Items, NEW u, NEW new, ResumesHead(i, u, new)
  PROVE  Resumed(i, u, new)
<1> USE DEF ResumesHead
<1>1. request[i] \in Seq(Trans) /\ IsInjective(request[i])
  BY DEF IInv, TypeOK, ItemInv, WaitItem
<1>2. /\ u \in Trans /\ u \in ToSet(request[i])
      /\ Tail(request[i]) \in Seq(Trans) /\ IsInjective(Tail(request[i]))
      /\ ToSet(Tail(request[i])) = ToSet(request[i]) \ {u}
  BY <1>1, QueueTail
<1>3. mStatus[u] = "BLOCKED" /\ op[u].item = i /\ (cvs[u] <=> held[u][i] # "N")
  BY <1>2 DEF IInv, ItemInv, WaitItem
<1>4. Waiting(u) /\ op[u].mode \in LockMode
  BY <1>2, <1>3 DEF IInv, OpInv, Waiting, Slot
<1>5. /\ request' = [request EXCEPT ![i] = Tail(@)]
      /\ held' = [held EXCEPT ![u][i] = new]
      /\ nodeFlag' = [nodeFlag EXCEPT ![u][i] = IF cvs[u] THEN @ ELSE {op[u].mode}]
      /\ waitsFor' = [waitsFor EXCEPT ![u] = {}]
      /\ mStatus' = [mStatus EXCEPT ![u] = "BEGIN"]
      /\ UNCHANGED <<slots, chain, mutex, op, cvs, scan, after, pc>>
  BY DEF Resume
<1>6. /\ request'[i] = Tail(request[i])
      /\ \A j \in Items \ {i} : request'[j] = request[j]
      /\ request' \in [Items -> Seq(Trans)]
  BY <1>2, <1>5 DEF IInv, TypeOK
<1>7. /\ held'[u][i] = new
      /\ \A v \in Trans, j \in Items : v # u \/ j # i =>
           held'[v][j] = held[v][j] /\ nodeFlag'[v][j] = nodeFlag[v][j]
      /\ nodeFlag'[u][i] = IF cvs[u] THEN nodeFlag[u][i] ELSE {op[u].mode}
  BY <1>2, <1>5 DEF IInv, TypeOK
<1>8. /\ mStatus'[u] = "BEGIN"
      /\ \A v \in Trans \ {u} : mStatus'[v] = mStatus[v]
      /\ waitsFor' \in [Trans -> SUBSET Trans]
      /\ mStatus' \in [Trans -> {"BEGIN", "BLOCKED"}]
  BY <1>2, <1>5 DEF IInv, TypeOK
<1>9. held' \in [Trans -> [Items -> Mode]]
  BY <1>2, <1>5 DEF IInv, TypeOK
<1>10. nodeFlag' \in [Trans -> [Items -> SUBSET LockMode]]
  BY <1>2, <1>4, <1>5 DEF IInv, TypeOK
<1>11. \A v \in Trans : v \in ToSet(request'[i]) <=> v \in ToSet(request[i]) /\ v # u
  BY <1>2, <1>6
<1>12. op[u].mode \in Mode
  BY <1>4 DEF LockMode
<1> QED BY <1>2, <1>3, <1>4, <1>5, <1>6, <1>7, <1>8, <1>9, <1>10, <1>11, <1>12
        DEF Resumed

\* Resume keeps what the invariant says of the waiting and of the nodes.
LEMMA ResumeItem ==
  ASSUME IInv, NEW i \in Items, NEW u, NEW new, ResumesHead(i, u, new),
         Covers(new, held[u][i]), Covers(new, op[u].mode),
         NEW t \in Trans, op[t].item = i, pc[t] \in {"wakeup", "toLight"}
  PROVE  /\ OpInv'
         /\ MutexItem(i)' /\ WaitItem(i)' /\ NodeItem(i)'
         /\ \A v \in Trans : ~ Unseen(v, i)'
         /\ ~ Scanned(i)' /\ (ToLight(i)' <=> ToLight(i))
         /\ \A v \in Trans : ~ (HoldsListMutex(v)' /\ op'[v].item = i)
<1>1. /\ u \in Trans /\ mStatus[u] = "BLOCKED" /\ Waiting(u)
      /\ op[u].item = i /\ op[u].mode \in LockMode /\ op[u].mode \in Mode
      /\ u \in ToSet(request[i])
      /\ cvs[u] <=> held[u][i] # "N"
      /\ \A v \in Trans : v \in ToSet(request'[i]) <=> v \in ToSet(request[i]) /\ v # u
      /\ IsInjective(request'[i])
      /\ held'[u][i] = new
      /\ \A v \in Trans, j \in Items : v # u \/ j # i =>
           held'[v][j] = held[v][j] /\ nodeFlag'[v][j] = nodeFlag[v][j]
      /\ nodeFlag'[u][i] = IF cvs[u] THEN nodeFlag[u][i] ELSE {op[u].mode}
      /\ mStatus'[u] = "BEGIN"
      /\ \A v \in Trans \ {u} : mStatus'[v] = mStatus[v]
      /\ UNCHANGED <<slots, chain, mutex, op, cvs, scan, after, pc>>
  <2>1. Resumed(i, u, new)
    BY ResumeFacts
  <2> QED BY <2>1 DEF Resumed
<1>2. OpInv'
  BY <1>1 DEF IInv, OpInv, Waiting, InLoop
<1>3. MutexItem(i)'
  BY <1>1 DEF IInv, ItemInv, MutexItem, InLoop
<1>4. WaitItem(i)'
  BY <1>1 DEF IInv, ItemInv, WaitItem, Waiting
<1>5. NodeItem(i)'
  <2>1. held[u][i] \in Mode /\ NodeItem(i) /\ new \in Mode
    BY <1>1 DEF IInv, TypeOK, ItemInv, ResumesHead
  <2>2. ASSUME NEW k \in nodeFlag'[u][i] PROVE Covers(new, k)
    <3>1. CASE cvs[u]
      <4>1. k \in nodeFlag[u][i] /\ k \in Mode
        BY <1>1, <2>2, <3>1, IntentModes DEF IInv, TypeOK
      <4>2. Covers(held[u][i], k)
        BY <1>1, <2>1, <4>1 DEF NodeItem
      <4> QED BY <2>1, <4>1, <4>2, CoversOrder
    <3>2. CASE ~ cvs[u]
      BY <1>1, <2>2, <3>2
    <3> QED BY <3>1, <3>2
  <2> QED BY <1>1, <2>1, <2>2 DEF NodeItem
<1>6. /\ \A v \in Trans : ~ Unseen(v, i)
      /\ ~ Scanned(i) /\ ~ Light(i)
  BY LoopSummary
<1>7. /\ \A v \in Trans : ~ Unseen(v, i)'
      /\ ~ Scanned(i)' /\ (ToLight(i)' <=> ToLight(i))
  BY <1>1, <1>6 DEF Unseen, Scanned, ToLight, At
<1>8. \A v \in Trans : ~ (HoldsListMutex(v)' /\ op'[v].item = i)
  BY <1>1, <1>6 DEF IInv, ItemInv, ListMutexItem, HoldsListMutex
<1> QED BY <1>2, <1>3, <1>4, <1>5, <1>7, <1>8

\* A sole holder's mode is the group mode.
LEMMA SoleHolderMode ==
  ASSUME IInv, NEW i \in Items, Summary(i), NEW u \in grant[i], Cardinality(grant[i]) = 1
  PROVE  grant[i] = {u} /\ mGrantLockMode[i] = held[u][i]
<1>1. /\ grant[i] \in SUBSET Trans /\ IsFiniteSet(grant[i])
      /\ held[u][i] \in LockMode /\ mFlag[i] \in SUBSET LockMode
  <2>1. grant[i] \in SUBSET Trans /\ held[u][i] \in LockMode /\ mFlag[i] \in SUBSET LockMode
    BY SummaryFacts DEF IInv
  <2> QED BY <2>1, ConstAssumption, FS_Subset
<1>2. grant[i] = {u}
  BY <1>1, FS_Singleton
<1>3. mFlag[i] = {held[u][i]}
  BY <1>1, <1>2 DEF Summary, MaskOf, ModesOf
<1>4. Decision(mFlag[i]) = held[u][i]
  BY <1>1, <1>3, DecisionIsJoin
<1> QED BY <1>2, <1>4 DEF Summary

\* toLightMode grants the head of the queue, an intent mode, in its own list.
LEMMA ToLightHeadInv ==
  ASSUME IInv, NEW t \in Trans, NEW i \in Items, op[t].item = i, ToLightHead(t)
  PROVE  IInv'
<1> DEFINE u == Head(request[i])
           new == Conversion(held[u][i], op[u].mode)
<1>1. /\ pc[t] = "toLight" /\ request[i] # <<>> /\ Resume(u, i, new)
      /\ UNCHANGED <<mFlag, mGrantLockMode, mArrLockCount, grant>>
  BY DEF ToLightHead
<1>2. /\ u \in Trans /\ u \in ToSet(request[i])
      /\ held[u][i] \in Mode /\ op[u].mode \in Mode
  <2>1. request[i] \in Seq(Trans) /\ IsInjective(request[i])
    BY DEF IInv, TypeOK, ItemInv, WaitItem
  <2>2. u \in Trans /\ u \in ToSet(request[i])
    BY <1>1, <2>1, QueueTail
  <2> HIDE DEF u
  <2> QED BY <2>2 DEF IInv, TypeOK
<1>3. /\ OnlyIntentHeld(i) /\ grant[i] = {}
      /\ \A v \in Trans : v \in ToSet(request[i]) => op[v].mode \notin HeavyMode
      /\ ToLight(i)
  BY <1>1 DEF IInv, ItemInv, TransitionItem, ToLight, At
<1>4. /\ new \in Mode \ HeavyMode
      /\ Covers(new, held[u][i]) /\ Covers(new, op[u].mode)
  <2>1. held[u][i] \notin HeavyMode /\ op[u].mode \notin HeavyMode
    BY <1>2, <1>3 DEF OnlyIntentHeld
  <2> HIDE DEF u
  <2>2. Conversion(held[u][i], op[u].mode) \in Mode
    BY <1>2, ConversionType
  <2>3. Conversion(held[u][i], op[u].mode) \notin HeavyMode
    BY <1>2, <2>1, IntentModes
  <2>4. /\ Covers(Conversion(held[u][i], op[u].mode), held[u][i])
        /\ Covers(Conversion(held[u][i], op[u].mode), op[u].mode)
    BY <1>2, CoversOrder
  <2> QED BY <2>2, <2>3, <2>4 DEF u
<1>5. ResumesHead(i, u, new)
  BY <1>1, <1>4 DEF ResumesHead
<1> HIDE DEF u, new
<1>6. /\ \A v \in Trans : v \in ToSet(request'[i]) <=> v \in ToSet(request[i]) /\ v # u
      /\ held'[u][i] = new
      /\ \A v \in Trans, j \in Items : v # u \/ j # i =>
           held'[v][j] = held[v][j] /\ nodeFlag'[v][j] = nodeFlag[v][j]
      /\ \A v \in Trans \ {u} : mStatus'[v] = mStatus[v]
      /\ \A j \in Items \ {i} : request'[j] = request[j]
      /\ UNCHANGED <<slots, chain, mutex, op, cvs, scan, after, pc>>
      /\ held' \in [Trans -> [Items -> Mode]]
      /\ nodeFlag' \in [Trans -> [Items -> SUBSET LockMode]]
      /\ request' \in [Items -> Seq(Trans)]
      /\ waitsFor' \in [Trans -> SUBSET Trans]
      /\ mStatus' \in [Trans -> {"BEGIN", "BLOCKED"}]
      /\ op[u].item = i
  <2>1. Resumed(i, u, new)
    BY <1>5, ResumeFacts
  <2> QED BY <2>1 DEF Resumed
<1>7. /\ OpInv'
      /\ MutexItem(i)' /\ WaitItem(i)' /\ NodeItem(i)'
      /\ ~ Scanned(i)' /\ (ToLight(i)' <=> ToLight(i))
      /\ \A v \in Trans : ~ (HoldsListMutex(v)' /\ op'[v].item = i)
  BY <1>1, <1>4, <1>5, ResumeItem
<1>8. TypeOK'
  BY <1>1, <1>6 DEF IInv, TypeOK
<1>9. ItemInv(i)'
  <2>1. ~ Light(i)' /\ LightItem(i)' /\ HeavyItem(i)'
    <3>1. ~ Light(i)
      BY <1>1, LoopSummary
    <3> QED BY <1>1, <1>3, <1>7, <3>1 DEF Light, LightItem, HeavyItem
  <2>2. ListMutexItem(i)'
    BY <1>7 DEF ListMutexItem
  <2>3. TransitionItem(i)'
    BY <1>1, <1>3, <1>4, <1>6, <1>7 DEF TransitionItem, OnlyIntentHeld
  <2> QED BY <1>7, <2>1, <2>2, <2>3 DEF ItemInv
<1>10. ASSUME NEW j \in Items, j # i PROVE ItemInv(j)'
  BY <1>1, <1>6, <1>10, ItemKept DEF IInv, TypeOK
<1> QED BY <1>7, <1>8, <1>9, <1>10 DEF IInv

\* The wake-up grants the head of the queue with the item's books kept.
LEMMA WakeUpHeadInv ==
  ASSUME IInv, NEW t \in Trans, NEW i \in Items, op[t].item = i, WakeUpHead(t)
  PROVE  IInv'
<1> DEFINE u == Head(request[i])
           old == held[u][i]
           m == op[u].mode
           group == Conversion(mGrantLockMode[i], m)
           new == IF Compatible(m, mGrantLockMode[i]) THEN Conversion(old, m) ELSE group
<1>1. /\ pc[t] = "wakeup" /\ request[i] # <<>> /\ Grantable(u, i)
      /\ SetGranted(i, old, new)
      /\ grant' = [grant EXCEPT ![i] = @ \cup {u}]
      /\ mGrantLockMode' = [mGrantLockMode EXCEPT ![i] = group]
      /\ Resume(u, i, new)
  BY DEF WakeUpHead
<1>2. /\ u \in Trans /\ u \in ToSet(request[i])
      /\ old \in Mode /\ m \in LockMode /\ m \in Mode
      /\ cvs[u] <=> old # "N"
  <2>1. request[i] \in Seq(Trans) /\ IsInjective(request[i])
    BY DEF IInv, TypeOK, ItemInv, WaitItem
  <2>2. u \in Trans /\ u \in ToSet(request[i])
    BY <1>1, <2>1, QueueTail
  <2> HIDE DEF u
  <2>3. mStatus[u] = "BLOCKED" /\ (cvs[u] <=> old # "N")
    BY <2>2 DEF IInv, ItemInv, WaitItem
  <2> QED BY <2>2, <2>3 DEF IInv, TypeOK, OpInv, Waiting, Slot, LockMode
<1>3. /\ ~ Light(i) /\ ~ ToLight(i) /\ Summary(i)
      /\ \A v \in Trans : ~ Unseen(v, i)
      /\ ~ Scanned(i)
  BY <1>1, LoopSummary
<1>4. /\ grant[i] = {v \in Trans : held[v][i] # "N"}
      /\ mFlag[i] \in SUBSET LockMode
      /\ \A v \in grant[i] : held[v][i] \in mFlag[i]
      /\ mGrantLockMode[i] = Decision(mFlag[i])
  <2>1. mFlag[i] \in SUBSET LockMode /\ \A v \in grant[i] : held[v][i] \in mFlag[i]
    BY <1>3, SummaryFacts DEF IInv
  <2> QED BY <1>3, <2>1 DEF Summary
<1> HIDE DEF u
<1>5. old = "N" \/ old \in mFlag[i]
  BY <1>2, <1>4
<1>6. new = Conversion(old, m)
  <2>1. CASE ~ Compatible(m, mGrantLockMode[i])
    <3>1. Cardinality(grant[i]) = 1 /\ u \in grant[i]
      BY <1>1, <1>2, <1>4, <2>1 DEF Grantable
    <3>2. mGrantLockMode[i] = old
      BY <1>3, <3>1, SoleHolderMode
    <3> QED BY <2>1, <3>2
  <2> QED BY <2>1
<1> HIDE DEF new
<1>7. /\ new \in Mode /\ new # "N"
      /\ Covers(new, old) /\ Covers(new, m)
  <2>1. m # "N"
    BY <1>2 DEF LockMode
  <2> HIDE DEF old, m
  <2> QED BY <1>2, <1>6, <2>1, ConversionType, CoversOrder
<1>8. ResumesHead(i, u, new)
  BY <1>1, <1>7 DEF ResumesHead, u
<1>9. /\ held'[u][i] = new
      /\ \A v \in Trans, j \in Items : v # u \/ j # i =>
           held'[v][j] = held[v][j] /\ nodeFlag'[v][j] = nodeFlag[v][j]
      /\ \A v \in Trans \ {u} : mStatus'[v] = mStatus[v]
      /\ \A j \in Items \ {i} : request'[j] = request[j]
      /\ UNCHANGED <<slots, chain, mutex, op, cvs, scan, after, pc>>
      /\ held' \in [Trans -> [Items -> Mode]]
      /\ nodeFlag' \in [Trans -> [Items -> SUBSET LockMode]]
      /\ request' \in [Items -> Seq(Trans)]
      /\ waitsFor' \in [Trans -> SUBSET Trans]
      /\ mStatus' \in [Trans -> {"BEGIN", "BLOCKED"}]
      /\ op[u].item = i
  <2>1. Resumed(i, u, new)
    BY <1>8, ResumeFacts
  <2> QED BY <2>1 DEF Resumed
<1>10. /\ OpInv'
       /\ MutexItem(i)' /\ WaitItem(i)' /\ NodeItem(i)'
       /\ \A v \in Trans : ~ Unseen(v, i)'
       /\ ~ Scanned(i)' /\ (ToLight(i)' <=> ToLight(i))
       /\ \A v \in Trans : ~ (HoldsListMutex(v)' /\ op'[v].item = i)
  BY <1>1, <1>7, <1>8, ResumeItem
<1>11. grant'[i] = grant[i] \cup {u} /\ mGrantLockMode'[i] = Conversion(mGrantLockMode[i], m)
  BY <1>1 DEF IInv, TypeOK
<1>12. /\ Counted(mArrLockCount'[i], grant'[i], ModesOf(i)')
       /\ mFlag'[i] = MaskOf(grant'[i], ModesOf(i)')
       /\ mFlag'[i] = FlagMoved(mFlag[i], mArrLockCount[i], old, new)
       /\ ~ Light(i)'
       /\ mArrLockCount' \in [Items -> [LockMode -> Nat]]
       /\ mFlag' \in [Items -> SUBSET (LockMode \cup {"LIGHT"})]
       /\ \A j \in Items \ {i} :
            mArrLockCount'[j] = mArrLockCount[j] /\ mFlag'[j] = mFlag[j]
  <2>1. MovesItem(i, u, old, new)
    BY <1>1, <1>2, <1>3, <1>4, <1>7, <1>9, <1>11 DEF MovesItem
  <2> QED BY <2>1, ItemMoved DEF IInv
<1> HIDE DEF old, m
<1>13. mGrantLockMode'[i] = Decision(mFlag'[i])
  <2>1. Decision(FlagMoved(mFlag[i], mArrLockCount[i], old, Conversion(old, m))) =
          Conversion(Decision(mFlag[i]), m)
    BY <1>2, <1>4, <1>5, GroupMoved
  <2> QED BY <1>4, <1>6, <1>11, <1>12, <2>1
<1>14. TypeOK'
  <2>1. mGrantLockMode' \in [Items -> Mode]
    BY <1>1, <1>2, ConversionType DEF IInv, TypeOK
  <2>2. grant' \in [Items -> SUBSET Trans]
    BY <1>1, <1>2 DEF IInv, TypeOK
  <2> QED BY <1>9, <1>12, <2>1, <2>2 DEF IInv, TypeOK
<1>15. ItemInv(i)'
  <2>1. LightItem(i)' /\ ListMutexItem(i)' /\ TransitionItem(i)'
    BY <1>3, <1>10, <1>12 DEF LightItem, ListMutexItem, TransitionItem
  <2>2. grant'[i] = {v \in Trans : held'[v][i] # "N" /\ ~ Unseen(v, i)'}
    BY <1>2, <1>4, <1>7, <1>9, <1>10, <1>11
  <2>3. HeavyItem(i)'
    BY <1>12, <1>13, <2>2 DEF HeavyItem, Summary
  <2> QED BY <1>10, <2>1, <2>3 DEF ItemInv
<1>16. ASSUME NEW j \in Items, j # i PROVE ItemInv(j)'
  <2>1. grant'[j] = grant[j] /\ mGrantLockMode'[j] = mGrantLockMode[j]
    BY <1>1, <1>16 DEF IInv, TypeOK
  <2> QED BY <1>9, <1>12, <1>16, <2>1, ItemKept DEF IInv
<1> QED BY <1>10, <1>14, <1>15, <1>16 DEF IInv

-----------------------------------------------------------------------------
(* A node is released out of light mode.                                   *)

\* The section of an unlock, or of a wait that failed after its grant.
Releases(t, i, m) ==
  /\ op[t].item = i /\ m \in Mode /\ mutex[i] = NoTrans /\ ~ Light(i)
  /\ mStatus[t] = "BEGIN" /\ ~ HoldsListMutex(t)
  /\ ReleaseGranted(t, i, m)
  /\ mutex' = [mutex EXCEPT ![i] = t]
  /\ pc' = [pc EXCEPT ![t] = "settle"]
  /\ after' \in [Trans -> {"run", "end", "abort"}]
  /\ \A u \in Trans \ {t} : after'[u] = after[u]
  /\ UNCHANGED <<mStatus, op, cvs, scan>>

\* A granted node gives back a slot or all of it in an item out of light mode.
LEMMA ReleasesInv ==
  ASSUME IInv, NEW t \in Trans, NEW i \in Items, NEW m, Releases(t, i, m)
  PROVE  IInv'
<1> DEFINE old == held[t][i]
           new == Decision(Kept(t, i, m))
<1>1. /\ op[t].item = i /\ m \in Mode /\ mutex[i] = NoTrans /\ ~ Light(i)
      /\ mStatus[t] = "BEGIN" /\ ~ HoldsListMutex(t)
      /\ mutex' = [mutex EXCEPT ![i] = t]
      /\ pc' = [pc EXCEPT ![t] = "settle"]
      /\ after' \in [Trans -> {"run", "end", "abort"}]
      /\ \A u \in Trans \ {t} : after'[u] = after[u]
      /\ UNCHANGED <<mStatus, op, cvs, scan, request, chain>>
      /\ SetGranted(i, old, new)
      /\ grant' = [grant EXCEPT ![i] = IF Kept(t, i, m) = {} THEN @ \ {t} ELSE @]
      /\ mGrantLockMode' = [mGrantLockMode EXCEPT ![i] = Decision(mFlag'[i])]
      /\ waitsFor' = IF Kept(t, i, m) = {} THEN ColumnsCleared(i, {t}) ELSE waitsFor
      /\ ReleaseNode(t, i, m)
  BY DEF Releases, ReleaseGranted
<1>2. /\ \A u \in Trans : ~ (InLoop(u) /\ op[u].item = i)
      /\ ~ Scanned(i) /\ ~ ToLight(i)
      /\ \A u \in Trans : ~ Unseen(u, i)
  BY <1>1, LoopNone DEF IInv
<1>3. /\ Summary(i)
      /\ grant[i] = {v \in Trans : held[v][i] # "N"}
  BY <1>1, <1>2 DEF IInv, ItemInv, HeavyItem, Summary
<1>4. /\ new \in Mode /\ Covers(old, new) /\ old \in Mode
      /\ new = "N" <=> Kept(t, i, m) = {}
      /\ held' = [held EXCEPT ![t][i] = new]
      /\ \A k \in nodeFlag'[t][i] : Covers(new, k)
      /\ \A u \in Trans, j \in Items :
           u # t \/ j # i =>
             held'[u][j] = held[u][j] /\ nodeFlag'[u][j] = nodeFlag[u][j]
      /\ held' \in [Trans -> [Items -> Mode]]
      /\ nodeFlag' \in [Trans -> [Items -> SUBSET LockMode]]
      /\ slots' \in [Trans -> Seq(Slot)]
  <2>1. TypeOK /\ NodeItem(i) /\ old \in Mode
    BY DEF IInv, TypeOK, ItemInv
  <2> QED BY <1>1, <2>1, ReleaseNodeFacts
<1> HIDE DEF new, old
<1>5. /\ held'[t][i] = new
      /\ grant'[i] = IF new = "N" THEN grant[i] \ {t} ELSE grant[i] \cup {t}
  <2>1. new # "N" => old # "N"
    BY <1>4, CoversOrder
  <2>2. new # "N" => t \in grant[i]
    BY <1>3, <2>1 DEF old
  <2>3. grant'[i] = IF Kept(t, i, m) = {} THEN grant[i] \ {t} ELSE grant[i]
    BY <1>1 DEF IInv, TypeOK
  <2>4. held'[t][i] = new
    BY <1>4 DEF IInv, TypeOK
  <2>5. new = "N" <=> Kept(t, i, m) = {}
    BY <1>4
  <2>6. new # "N" => grant[i] = grant[i] \cup {t}
    BY <2>2
  <2> QED BY <2>3, <2>4, <2>5, <2>6
<1>6. /\ Counted(mArrLockCount'[i], grant'[i], ModesOf(i)')
      /\ mFlag'[i] = MaskOf(grant'[i], ModesOf(i)')
      /\ mFlag'[i] \in SUBSET LockMode
      /\ ~ Light(i)'
      /\ mArrLockCount' \in [Items -> [LockMode -> Nat]]
      /\ mFlag' \in [Items -> SUBSET (LockMode \cup {"LIGHT"})]
      /\ \A j \in Items \ {i} :
           mArrLockCount'[j] = mArrLockCount[j] /\ mFlag'[j] = mFlag[j]
  <2>1. MovesItem(i, t, old, new)
    BY <1>1, <1>3, <1>4, <1>5 DEF MovesItem, old
  <2> QED BY <2>1, ItemMoved DEF IInv
<1>7. /\ mGrantLockMode'[i] = Decision(mFlag'[i])
      /\ mGrantLockMode' \in [Items -> Mode]
  <2>1. Decision(mFlag'[i]) \in Mode
    BY <1>6, DecisionIsJoin
  <2> QED BY <1>1, <2>1 DEF IInv, TypeOK
<1>8. TypeOK'
  <2>1. waitsFor' \in [Trans -> SUBSET Trans]
    BY <1>1 DEF IInv, TypeOK, ColumnsCleared
  <2>2. grant' \in [Items -> SUBSET Trans]
    BY <1>1 DEF IInv, TypeOK
  <2> QED BY <1>1, <1>4, <1>6, <1>7, <2>1, <2>2 DEF IInv, TypeOK, PC
<1>9. OpInv'
  BY <1>1 DEF IInv, TypeOK, OpInv, Waiting, InLoop
<1>10. ItemInv(i)'
  <2>0. /\ pc'[t] = "settle" /\ \A u \in Trans \ {t} : pc'[u] = pc[u]
        /\ mutex'[i] = t
    BY <1>1 DEF IInv, TypeOK
  <2>1. /\ \A u \in Trans : ~ Unseen(u, i)'
        /\ ~ Scanned(i)' /\ ~ ToLight(i)'
    BY <1>1, <1>2, <2>0 DEF InLoop, Unseen, ToLight, Scanned, At
  <2>2. MutexItem(i)'
    BY <1>1, <1>2, <2>0 DEF MutexItem, InLoop
  <2>3. WaitItem(i)'
    BY <1>1, <1>4, <2>0 DEF IInv, ItemInv, WaitItem, Waiting
  <2>4. NodeItem(i)'
    BY <1>4, <1>5 DEF IInv, ItemInv, NodeItem
  <2>5. LightItem(i)' /\ TransitionItem(i)'
    BY <1>6, <2>1 DEF LightItem, TransitionItem
  <2>6. ListMutexItem(i)'
    BY <1>1, <1>2, <2>0 DEF IInv, ItemInv, ListMutexItem, HoldsListMutex
  <2>7. grant'[i] = {v \in Trans : held'[v][i] # "N" /\ ~ Unseen(v, i)'}
    BY <1>3, <1>4, <1>5, <2>1
  <2>8. HeavyItem(i)'
    BY <1>6, <1>7, <2>7 DEF HeavyItem, Summary
  <2> QED BY <2>2, <2>3, <2>4, <2>5, <2>6, <2>8 DEF ItemInv
<1>11. ASSUME NEW j \in Items, j # i PROVE ItemInv(j)'
  <2>1. /\ grant'[j] = grant[j] /\ mGrantLockMode'[j] = mGrantLockMode[j]
        /\ mutex'[j] = mutex[j] /\ \A u \in Trans \ {t} : pc'[u] = pc[u]
    BY <1>1, <1>11 DEF IInv, TypeOK
  <2> QED BY <1>1, <1>4, <1>6, <1>11, <2>1, ItemKept DEF IInv
<1> QED BY <1>8, <1>9, <1>10, <1>11 DEF IInv

\* unlockTableInternal on a granted node keeps the invariant.
LEMMA UnlockHeavyInv ==
  ASSUME IInv, NEW t \in Trans, NEW i \in Items, op[t].item = i, UnlockHeavy(t)
  PROVE  IInv'
<1>1. /\ pc[t] = "unlock" /\ mStatus[t] = "BEGIN" /\ op[t].mode \in Mode
      /\ after \in [Trans -> {"run", "end", "abort"}]
  BY DEF UnlockHeavy, IInv, TypeOK, OpInv, Waiting
<1>2. Releases(t, i, op[t].mode)
  BY <1>1 DEF Releases, UnlockHeavy, MutexFree, thrVars, HoldsListMutex
<1> QED BY <1>2, ReleasesInv

-----------------------------------------------------------------------------
(* The end of a wait.                                                      *)

\* A granted wait ends; the node keeps its mode, which covers its new mask.
WaitOver(t, i) ==
  /\ op[t].item = i /\ Waiting(t) /\ mStatus[t] = "BEGIN"
  /\ ClearRow(t) /\ Return(t, "run")
  /\ cvs' = [cvs EXCEPT ![t] = FALSE]
  /\ slots' \in [Trans -> Seq(Slot)]
  /\ nodeFlag' \in [Trans -> [Items -> SUBSET LockMode]]
  /\ \A k \in nodeFlag'[t][i] : Covers(held[t][i], k)
  /\ \A u \in Trans, j \in Items : u # t \/ j # i => nodeFlag'[u][j] = nodeFlag[u][j]
  /\ UNCHANGED <<itemVars, mutex, held, mStatus, scan, after>>

\* A wait that is over keeps the invariant of every item.
LEMMA WaitOverInv ==
  ASSUME IInv, NEW t \in Trans, NEW i \in Items, WaitOver(t, i)
  PROVE  IInv'
<1>1. /\ op[t].item = i /\ Waiting(t) /\ mStatus[t] = "BEGIN"
      /\ slots' \in [Trans -> Seq(Slot)]
      /\ nodeFlag' \in [Trans -> [Items -> SUBSET LockMode]]
      /\ \A k \in nodeFlag'[t][i] : Covers(held[t][i], k)
      /\ \A u \in Trans, j \in Items :
           u # t \/ j # i => nodeFlag'[u][j] = nodeFlag[u][j]
      /\ waitsFor' = [waitsFor EXCEPT ![t] = {}]
      /\ chain' = [chain EXCEPT ![t] = {}]
      /\ cvs' = [cvs EXCEPT ![t] = FALSE]
      /\ pc' = [pc EXCEPT ![t] = "run"] /\ op' = [op EXCEPT ![t] = NoOp]
      /\ UNCHANGED <<itemVars, mutex, held, mStatus, scan, after>>
  BY DEF WaitOver, ClearRow, Return
<1>3. TypeOK'
  <2>1. op' \in [Trans -> [item : Items \cup {NoItem}, mode : Mode]]
    BY <1>1 DEF IInv, TypeOK, NoOp, Mode
  <2> QED BY <1>1, <2>1 DEF IInv, TypeOK, itemVars, PC
<1>4. OpInv'
  BY <1>1 DEF IInv, TypeOK, OpInv, Waiting, InLoop
<1>5. ItemInv(i)'
  <2>0. /\ pc'[t] = "run" /\ \A u \in Trans \ {t} : pc'[u] = pc[u] /\ op'[u] = op[u]
        /\ op'[t].item # i /\ ~ InLoop(t) /\ ~ HoldsListMutex(t)
        /\ \A u \in Trans \ {t} : cvs'[u] = cvs[u]
    BY <1>1, ConstAssumption DEF IInv, TypeOK, NoOp, Waiting, InLoop, HoldsListMutex
  <2>1. /\ \A u \in Trans : Unseen(u, i)' <=> Unseen(u, i)
        /\ ToLight(i)' <=> ToLight(i)
        /\ Scanned(i)' <=> Scanned(i)
    BY <1>1, <2>0 DEF Unseen, ToLight, Scanned, At, InLoop
  <2>2. MutexItem(i)'
    BY <1>1, <2>0 DEF IInv, ItemInv, MutexItem, InLoop
  <2>3. WaitItem(i)'
    BY <1>1, <2>0 DEF IInv, ItemInv, WaitItem, Waiting, itemVars
  <2>4. NodeItem(i)'
    BY <1>1 DEF IInv, ItemInv, NodeItem
  <2>5. LightItem(i)'
    BY <1>1 DEF IInv, ItemInv, LightItem, Light, OnlyIntentHeld, itemVars
  <2>6. ListMutexItem(i)'
    BY <1>1, <2>0, <2>1 DEF IInv, ItemInv, ListMutexItem, HoldsListMutex, Light, itemVars
  <2>7. TransitionItem(i)'
    <3>1. \A u \in Trans : u \in ToSet(request[i]) => u # t
      BY <1>1 DEF IInv, ItemInv, WaitItem
    <3> QED BY <1>1, <2>0, <2>1, <3>1 DEF IInv, ItemInv, TransitionItem, OnlyIntentHeld,
                                         itemVars
  <2>8. HeavyItem(i)'
    BY <1>1, <2>1, HeavyItemKept DEF IInv, ItemInv, itemVars
  <2> QED BY <2>2, <2>3, <2>4, <2>5, <2>6, <2>7, <2>8 DEF ItemInv
<1>6. ASSUME NEW j \in Items, j # i PROVE ItemInv(j)'
  BY <1>1, <1>6, ItemKept, ConstAssumption DEF IInv, TypeOK, NoOp, itemVars
<1> QED BY <1>3, <1>4, <1>5, <1>6 DEF IInv

\* A resumed transaction returns from lockTable with its slot.
LEMMA WakeUpInv ==
  ASSUME IInv, NEW t \in Trans, NEW i \in Items, op[t].item = i, WakeUp(t)
  PROVE  IInv'
<1>1. op[t] \in Slot /\ op[t].mode \in LockMode /\ Covers(held[t][i], op[t].mode)
  BY DEF WakeUp, IInv, OpInv, Waiting, Slot, ItemInv, WaitItem
<1>2. /\ nodeFlag' = [nodeFlag EXCEPT ![t][i] = @ \cup {op[t].mode}]
      /\ slots' = [slots EXCEPT ![t] = Append(@, op[t])]
  BY DEF WakeUp, AddLockSlot
<1>3. /\ slots' \in [Trans -> Seq(Slot)]
      /\ nodeFlag' \in [Trans -> [Items -> SUBSET LockMode]]
  BY <1>1, <1>2, AppendProperties DEF IInv, TypeOK
<1>4. \A u \in Trans, j \in Items : u # t \/ j # i => nodeFlag'[u][j] = nodeFlag[u][j]
  BY <1>2 DEF IInv, TypeOK
<1>5. \A k \in nodeFlag'[t][i] : Covers(held[t][i], k)
  BY <1>1, <1>2 DEF IInv, TypeOK, ItemInv, NodeItem
<1>6. WaitOver(t, i)
  BY <1>3, <1>4, <1>5 DEF WaitOver, WakeUp
<1> QED BY <1>6, WaitOverInv

\* Where a blocked request is in the queue.
LEMMA QueuePlace ==
  ASSUME IInv, NEW t \in Trans, NEW i \in Items, op[t].item = i, mStatus[t] = "BLOCKED",
         NEW k, k = CHOOSE n \in DOMAIN request[i] : request[i][n] = t
  PROVE  /\ request[i] \in Seq(Trans) /\ IsInjective(request[i]) /\ k \in DOMAIN request[i]
         /\ request[i][k] = t /\ request[i] # <<>>
<1>1. request[i] \in Seq(Trans) /\ IsInjective(request[i]) /\ t \in ToSet(request[i])
  BY DEF IInv, TypeOK, ItemInv, WaitItem
<1>2. \E n \in DOMAIN request[i] : request[i][n] = t
  BY <1>1 DEF ToSet
<1>3. request[i] # <<>>
  BY <1>1, QueueEmpty
<1> QED BY <1>1, <1>2, <1>3

\* A victim or a timed-out request leaves the queue at any place.
LEMMA LeaveQueueInv ==
  ASSUME IInv, NEW t \in Trans, NEW i \in Items, op[t].item = i,
         MutexFree(t), mStatus[t] = "BLOCKED", LeaveQueue(t)
  PROVE  IInv'
<1> DEFINE k == CHOOSE n \in DOMAIN request[i] : request[i][n] = t
           q == RemoveAt(request[i], k)
<1>1. /\ request' = [request EXCEPT ![i] = q]
      /\ waitsFor' = IF cvs[t] THEN waitsFor ELSE ColumnsCleared(i, {t})
      /\ mutex' = [mutex EXCEPT ![i] = t]
      /\ after' = [after EXCEPT ![t] = "abort"]
      /\ mStatus' = [mStatus EXCEPT ![t] = "BEGIN"]
      /\ cvs' = [cvs EXCEPT ![t] = FALSE]
      /\ pc' = [pc EXCEPT ![t] = "settle"]
      /\ UNCHANGED <<mFlag, mGrantLockMode, mArrLockCount, grant, nodeVars, chain,
                     op, scan>>
  BY DEF LeaveQueue, IInv, TypeOK
<1>2. /\ q \in Seq(Trans) /\ IsInjective(q)
      /\ ToSet(q) = ToSet(request[i]) \ {t}
      /\ request[i] # <<>>
  <2>1. /\ request[i] \in Seq(Trans) /\ IsInjective(request[i]) /\ k \in DOMAIN request[i]
        /\ request[i][k] = t /\ request[i] # <<>>
    BY QueuePlace
  <2> HIDE DEF k
  <2> QED BY <2>1, SeqRemove
<1> HIDE DEF q
<1>3. /\ mutex[i] = NoTrans /\ ~ Light(i)
      /\ \A u \in Trans : ~ (InLoop(u) /\ op[u].item = i)
      /\ ~ Scanned(i) /\ ~ ToLight(i)
      /\ \A u \in Trans : ~ Unseen(u, i)
      /\ Waiting(t)
  BY <1>2, LoopNone DEF IInv, MutexFree, ItemInv, LightItem, OpInv
<1>4. TypeOK'
  <2>1. request' \in [Items -> Seq(Trans)]
    BY <1>1, <1>2 DEF IInv, TypeOK
  <2>2. waitsFor' \in [Trans -> SUBSET Trans]
    BY <1>1 DEF IInv, TypeOK, ColumnsCleared
  <2> QED BY <1>1, <2>1, <2>2 DEF IInv, TypeOK, nodeVars, PC
<1>5. OpInv'
  BY <1>1 DEF IInv, TypeOK, OpInv, Waiting, InLoop
<1>6. ItemInv(i)'
  <2>0. /\ pc'[t] = "settle" /\ \A u \in Trans \ {t} : pc'[u] = pc[u]
        /\ mutex'[i] = t /\ request'[i] = q
        /\ mStatus'[t] = "BEGIN" /\ \A u \in Trans \ {t} : mStatus'[u] = mStatus[u]
        /\ \A u \in Trans \ {t} : cvs'[u] = cvs[u]
        /\ op' = op /\ held' = held /\ nodeFlag' = nodeFlag
    BY <1>1 DEF IInv, TypeOK, nodeVars
  <2>1. /\ \A u \in Trans : ~ Unseen(u, i)'
        /\ ~ Scanned(i)' /\ ~ ToLight(i)'
    BY <1>1, <1>3, <2>0 DEF InLoop, Unseen, ToLight, Scanned, At
  <2>2. MutexItem(i)'
    BY <1>3, <2>0 DEF MutexItem, InLoop
  <2>3. WaitItem(i)'
    BY <1>2, <1>3, <2>0 DEF IInv, ItemInv, WaitItem, Waiting
  <2>4. NodeItem(i)'
    BY <2>0 DEF IInv, ItemInv, NodeItem
  <2>5. ~ Light(i)' /\ LightItem(i)' /\ TransitionItem(i)'
    BY <1>1, <1>3, <2>1 DEF LightItem, TransitionItem, Light
  <2>6. ListMutexItem(i)'
    BY <1>3, <2>0 DEF IInv, ItemInv, ListMutexItem, HoldsListMutex
  <2>7. HeavyItem(i)'
    BY <1>1, <1>3, <2>0, <2>1, HeavyItemKept DEF IInv, ItemInv
  <2> QED BY <2>2, <2>3, <2>4, <2>5, <2>6, <2>7 DEF ItemInv
<1>7. ASSUME NEW j \in Items, j # i PROVE ItemInv(j)'
  BY <1>1, <1>7, ItemKept DEF IInv, TypeOK, nodeVars
<1> QED BY <1>4, <1>5, <1>6, <1>7 DEF IInv

\* An interrupted wait, in each of the three states its request may be in.
LEMMA SessionEventInv ==
  ASSUME IInv, NEW t \in Trans, NEW i \in Items, op[t].item = i, SessionEvent(t)
  PROVE  IInv'
<1>1. Waiting(t) /\ MutexFree(t) /\ mutex[i] = NoTrans
  BY DEF SessionEvent, MutexFree
<1>2. CASE mStatus[t] = "BLOCKED" /\ LeaveQueue(t)
  BY <1>1, <1>2, LeaveQueueInv
<1>3. CASE /\ mStatus[t] = "BEGIN"
           /\ cvs[t] \/ Light(i)
           /\ IF cvs[t] THEN UNCHANGED nodeVars ELSE ReleaseNode(t, i, "N")
           /\ cvs' = [cvs EXCEPT ![t] = FALSE]
           /\ ClearRow(t)
           /\ Return(t, "run")
           /\ UNCHANGED <<itemVars, mutex, mStatus, scan, after>>
  <2>1. CASE cvs[t]
    <3>1. UNCHANGED nodeVars
      BY <1>3, <2>1
    <3>2. WaitOver(t, i)
      BY <1>1, <1>3, <3>1 DEF WaitOver, nodeVars, IInv, TypeOK, ItemInv, NodeItem
    <3> QED BY <3>2, WaitOverInv
  <2>2. CASE ~ cvs[t]
    <3>1. /\ ReleaseNode(t, i, "N") /\ Light(i)
          /\ waitsFor' = [waitsFor EXCEPT ![t] = {}]
          /\ chain' = [chain EXCEPT ![t] = {}]
          /\ pc' = [pc EXCEPT ![t] = "run"] /\ op' = [op EXCEPT ![t] = NoOp]
          /\ cvs' = cvs
          /\ UNCHANGED <<itemVars, mutex, mStatus, scan, after>>
      BY <1>3, <2>2 DEF ClearRow, Return, IInv, TypeOK
    <3>2. Kept(t, i, "N") = {} /\ Decision({}) = "N"
      BY DEF Kept, Decision
    <3>3. /\ held' = [held EXCEPT ![t][i] = "N"]
          /\ \A k \in nodeFlag'[t][i] : Covers("N", k)
          /\ \A u \in Trans, j \in Items :
               u # t \/ j # i =>
                 held'[u][j] = held[u][j] /\ nodeFlag'[u][j] = nodeFlag[u][j]
          /\ held' \in [Trans -> [Items -> Mode]]
          /\ nodeFlag' \in [Trans -> [Items -> SUBSET LockMode]]
          /\ slots' \in [Trans -> Seq(Slot)]
      <4>1. "N" \in Mode /\ TypeOK /\ NodeItem(i)
        BY DEF Mode, IInv, ItemInv
      <4> QED BY <3>1, <3>2, <4>1, ReleaseNodeFacts
    <3>4. TypeOK'
      BY <3>1, <3>3 DEF IInv, TypeOK, NoOp, Mode, PC, itemVars
    <3>5. OpInv'
      BY <1>1, <1>3, <3>1 DEF IInv, TypeOK, OpInv, Waiting, InLoop
    <3>6. ItemInv(i)'
      <4>1. /\ "N" \in Mode \ HeavyMode /\ held'[t][i] = "N"
            /\ \A u \in Trans \ {t} : /\ pc'[u] = pc[u] /\ op'[u] = op[u]
                                      /\ held'[u][i] = held[u][i]
                                      /\ nodeFlag'[u][i] = nodeFlag[u][i]
            /\ pc'[t] = "run" /\ pc' \in [Trans -> PC]
            /\ ~ InLoop(t) /\ ~ InLoop(t)' /\ ~ HoldsListMutex(t)' /\ ~ Waiting(t)'
        BY <1>1, <3>1, <3>3, <3>4 DEF IInv, TypeOK, InLoop, HoldsListMutex, Waiting,
                                      Mode, HeavyMode
      <4>2. UNCHANGED <<itemVars, mutex, mStatus, cvs, scan>> /\ TypeOK /\ ItemInv(i)
        BY <3>1 DEF IInv
      <4> QED BY <1>3, <3>1, <3>3, <4>1, <4>2, LightStepItem
    <3>7. ASSUME NEW j \in Items, j # i PROVE ItemInv(j)'
      BY <3>1, <3>3, <3>7, ItemKept, ConstAssumption DEF IInv, TypeOK, NoOp, itemVars
    <3> QED BY <3>4, <3>5, <3>6, <3>7 DEF IInv
  <2> QED BY <2>1, <2>2
<1>4. CASE /\ mStatus[t] = "BEGIN"
           /\ ~ cvs[t] /\ ~ Light(i)
           /\ ReleaseGranted(t, i, "N")
           /\ mutex' = [mutex EXCEPT ![i] = t]
           /\ after' = [after EXCEPT ![t] = "abort"]
           /\ pc' = [pc EXCEPT ![t] = "settle"]
           /\ UNCHANGED <<mStatus, op, cvs, scan>>
  <2>1. /\ "N" \in Mode /\ ~ HoldsListMutex(t)
        /\ after' \in [Trans -> {"run", "end", "abort"}]
        /\ \A u \in Trans \ {t} : after'[u] = after[u]
    BY <1>1, <1>4 DEF Mode, Waiting, HoldsListMutex, IInv, TypeOK
  <2>2. Releases(t, i, "N")
    BY <1>1, <1>4, <2>1 DEF Releases
  <2> QED BY <2>2, ReleasesInv
<1> QED BY <1>2, <1>3, <1>4 DEF SessionEvent

-----------------------------------------------------------------------------

\* A stuttering step keeps the invariant.
LEMMA StutterInv == IInv /\ UNCHANGED vars => IInv'
<1> SUFFICES ASSUME IInv, UNCHANGED vars PROVE IInv'
  OBVIOUS
<1>1. TypeOK' /\ OpInv'
  BY DEF IInv, TypeOK, OpInv, Waiting, InLoop, vars, itemVars, nodeVars, waitVars, thrVars
<1>2. ASSUME NEW j \in Items PROVE ItemInv(j)'
  BY ItemKept DEF IInv, vars, itemVars, nodeVars, waitVars, thrVars
<1> QED BY <1>1, <1>2 DEF IInv

\* The invariant is inductive: one case per action.
LEMMA NextInv == IInv /\ [Next]_vars => IInv'
<1> SUFFICES ASSUME IInv, [Next]_vars PROVE IInv'
  OBVIOUS
<1>1. CASE UNCHANGED vars
  BY <1>1, StutterInv
<1>2. ASSUME NEW t \in Trans, Call(t) PROVE IInv'
  <2>1. ASSUME NEW i \in Items, NEW m \in AskedMode, LockTable(t, i, m) PROVE IInv'
    BY <2>1, LockTableInv
  <2>2. ASSUME NEW k \in DOMAIN slots[t], UnlockSlot(t, k) PROVE IInv'
    BY <2>2, UnlockSlotInv
  <2>3. CASE EndTrans(t)
    BY <2>3, EndInv
  <2> QED BY <1>2, <2>1, <2>2, <2>3 DEF Call
<1>3. ASSUME NEW t \in Trans, Step(t) PROVE IInv'
  <2>1. CASE (\E i \in Items : UnlockNode(t, i)) \/ EndDone(t)
    BY <2>1, EndInv
  <2>2. CASE CheckDeadlock(t)
    BY <2>2, CheckDeadlockInv
  \* Every other step is taken inside lockTable or unlockTable.
  <2>3. CASE op[t].item \notin Items
    <3>1. pc[t] \in {"run", "end"}
      BY <2>3 DEF IInv, TypeOK, OpInv, PC, Slot
    <3> QED BY <1>3, <2>1, <3>1 DEF Step, LightLock, LockInternalLight, BeginHeavy, Scan,
              GrantHeavy, Block, NoWait, AtDecision, LightUnlock, UnlockHeavy, Settle,
              WakeUpHead, WakeUpDone, ToLightHead, ToLightDone, WakeUp, CheckDeadlock,
              Deadlock, TimeOut, SessionEvent, Waiting
  <2>4. ASSUME NEW i \in Items, op[t].item = i PROVE IInv'
    <3>1. CASE LightLock(t) \/ LockInternalLight(t)
      BY <2>4, <3>1, GrantLightInv
    <3>2. CASE BeginHeavy(t)
      BY <2>4, <3>2, BeginHeavyInv
    <3>3. ASSUME NEW s \in Trans, Scan(t, s) PROVE IInv'
      BY <2>4, <3>3, ScanInv
    <3>4. CASE GrantHeavy(t)
      BY <2>4, <3>4, GrantHeavyInv
    <3>5. CASE Block(t)
      BY <2>4, <3>5, BlockInv
    <3>6. CASE NoWait(t)
      BY <2>4, <3>6, NoWaitInv
    <3>7. CASE LightUnlock(t)
      BY <2>4, <3>7, LightUnlockInv
    <3>8. CASE UnlockHeavy(t)
      BY <2>4, <3>8, UnlockHeavyInv
    <3>9. CASE Settle(t)
      BY <2>4, <3>9, SettleInv
    <3>10. CASE WakeUpHead(t)
      BY <2>4, <3>10, WakeUpHeadInv
    <3>11. CASE WakeUpDone(t)
      BY <2>4, <3>11, WakeUpDoneInv
    <3>12. CASE ToLightHead(t)
      BY <2>4, <3>12, ToLightHeadInv
    <3>13. CASE ToLightDone(t)
      BY <2>4, <3>13, ToLightDoneInv
    <3>14. CASE WakeUp(t)
      BY <2>4, <3>14, WakeUpInv
    <3>15. CASE Deadlock(t)
      BY <2>4, <3>15, LeaveQueueInv DEF Deadlock
    <3>16. CASE TimeOut(t)
      BY <2>4, <3>16, LeaveQueueInv DEF TimeOut
    <3>17. CASE SessionEvent(t)
      BY <2>4, <3>17, SessionEventInv
    <3> QED BY <1>3, <2>1, <2>2, <3>1, <3>2, <3>3, <3>4, <3>5, <3>6, <3>7, <3>8, <3>9,
               <3>10, <3>11, <3>12, <3>13, <3>14, <3>15, <3>16, <3>17 DEF Step
  <2> QED BY <2>3, <2>4
<1> QED BY <1>1, <1>2, <1>3 DEF Next

\* What every critical section finds and leaves holds in every state.
THEOREM Invariance == Spec => []IInv
BY InitInv, NextInv, PTL DEF Spec

\* Type correctness: in particular no count of mArrLockCount is ever decremented
\* below zero, whatever path granted the node.
THEOREM TypeCorrect == Spec => []TypeOK
<1>1. IInv => TypeOK
  BY DEF IInv
<1> QED BY <1>1, Invariance, PTL

-----------------------------------------------------------------------------
(* The item's summary.                                                     *)

\* lockTableInternal and the wake-up decide by mGrantLockMode and the count of
\* the grant list; whenever an item's mutex is free they are those of the nodes.
THEOREM GroupModeCorrect == Spec => []GroupModeAgrees
<1>1. IInv => GroupModeAgrees
  <2> SUFFICES ASSUME IInv, NEW i \in Items, Stable(i)
               PROVE  /\ grant[i] = {t \in Trans : held[t][i] # "N"}
                      /\ \A m \in LockMode : mArrLockCount[i][m] =
                           Cardinality({t \in Trans : held[t][i] = m})
                      /\ mFlag[i] = {held[t][i] : t \in grant[i]}
                      /\ mGrantLockMode[i] = Decision(mFlag[i])
    BY DEF GroupModeAgrees
  <2>1. ~ ToLight(i) /\ \A u \in Trans : ~ Unseen(u, i)
    BY LoopNone DEF IInv, Stable
  <2>2. Summary(i)
    BY <2>1 DEF IInv, ItemInv, HeavyItem, Stable
  <2>3. grant[i] = {t \in Trans : held[t][i] # "N"}
    BY <2>1, <2>2 DEF Summary
  <2>4. ASSUME NEW m \in LockMode
        PROVE  mArrLockCount[i][m] = Cardinality({t \in Trans : held[t][i] = m})
    <3>1. {u \in grant[i] : ModesOf(i)[u] = m} = {t \in Trans : held[t][i] = m}
      BY <2>3 DEF ModesOf, LockMode
    <3> QED BY <2>2, <3>1 DEF Summary, Counted
  <2>5. mFlag[i] = {held[t][i] : t \in grant[i]}
    BY <2>2, <2>3 DEF Summary, MaskOf, ModesOf
  <2> QED BY <2>2, <2>3, <2>4, <2>5 DEF Summary
<1> QED BY <1>1, Invariance, PTL

\* unlockTable's assertions on an item it finds in light mode never fail.
THEOREM LightModeCorrect == Spec => []LightModeClean
<1>1. IInv => LightModeClean
  BY DEF IInv, ItemInv, LightItem, OnlyIntentHeld, LightModeClean
<1> QED BY <1>1, Invariance, PTL

-----------------------------------------------------------------------------
(* Each step grants, releases, or leaves what is held.                     *)

\* TableLock and LockMgr read the same tables.
LEMMA SameTables ==
  /\ Table!Mode = Mode /\ Table!LockMode = LockMode
  /\ \A a, b : Table!Conversion(a, b) = Conversion(a, b)
  /\ \A a, b : Table!Compatible(a, b) <=> Compatible(a, b)
BY DEF Table!Mode, Mode, Table!LockMode, LockMode, Table!Conversion, Conversion,
       Table!mConversionTBL, mConversionTBL, Table!Compatible, Compatible,
       Table!mCompatibleTBL, mCompatibleTBL

\* A mode that is compatible with the group mode is compatible with each holder.
LEMMA GroupSpeaksForHolders ==
  ASSUME IInv, NEW i \in Items, Summary(i), \A v \in Trans : ~ Unseen(v, i),
         NEW m \in Mode, Compatible(mGrantLockMode[i], m),
         NEW u \in Trans
  PROVE  Compatible(held[u][i], m)
<1>1. held[u][i] \in Mode /\ mGrantLockMode[i] \in Mode
  BY DEF IInv, TypeOK
<1>2. Covers(mGrantLockMode[i], held[u][i])
  <2>1. CASE held[u][i] = "N"
    BY <1>1, <2>1, CoversOrder
  <2>2. CASE held[u][i] # "N"
    <3>1. u \in grant[i]
      BY <2>2 DEF Summary
    <3>2. mFlag[i] \in SUBSET LockMode /\ held[u][i] \in mFlag[i]
      BY <3>1, SummaryFacts DEF IInv
    <3> QED BY <3>2, DecisionIsJoin DEF Summary
  <2> QED BY <2>1, <2>2
<1> QED BY <1>1, <1>2, CoversCompatible

\* A light grant is a grant: nobody holds a heavy mode.
LEMMA GrantLightGrants ==
  ASSUME IInv, NEW t \in Trans, NEW i \in Items, op[t].item = i,
         LightLock(t) \/ LockInternalLight(t)
  PROVE  Table!Next
<1>1. /\ GrantLight(t) /\ pc[t] \in {"lightLock", "lock"}
      /\ op[t] \in Slot /\ op[t].mode \in IntentMode
      /\ pc[t] = "lock" => Light(i)
  BY DEF IInv, OpInv, LightLock, LockInternalLight
<1>2. Light(i) \/ Unseen(t, i)
  BY <1>1 DEF IInv, ItemInv, ListMutexItem, HoldsListMutex
<1>3. OnlyIntentHeld(i)
  BY <1>2 DEF IInv, ItemInv, LightItem, TransitionItem, Unseen, Scanned
<1>4. op[t].mode \in LockMode /\ op[t].mode \in Mode \ HeavyMode
  BY <1>1, IntentModes
<1>5. \A u \in Trans \ {t} : Compatible(held[u][i], op[t].mode)
  <2>1. \A u \in Trans : held[u][i] \in Mode \ HeavyMode
    BY <1>3 DEF OnlyIntentHeld, IInv, TypeOK
  <2> QED BY <1>4, <2>1, IntentModes
<1>6. Table!Grant(t, i, op[t].mode)
  BY <1>1, <1>5, SameTables DEF GrantLight, Table!Grant
<1> QED BY <1>4, <1>6, SameTables DEF Table!Next

\* A grant from the lists is a grant: the group mode speaks for all holders.
LEMMA GrantHeavyGrants ==
  ASSUME IInv, NEW t \in Trans, NEW i \in Items, op[t].item = i, GrantHeavy(t)
  PROVE  Table!Next
<1>1. /\ op[t].mode \in LockMode /\ op[t].mode \in Mode
      /\ Summary(i) /\ \A u \in Trans : ~ Unseen(u, i)
      /\ grant[i] = {u \in Trans : held[u][i] # "N"}
  BY AtDecisionFacts DEF GrantHeavy
<1>2. \A u \in Trans \ {t} : Compatible(held[u][i], op[t].mode)
  <2>1. CASE Compatibly(t)
    BY <1>1, <2>1, GroupSpeaksForHolders DEF Compatibly
  <2>2. CASE SoleHolder(t)
    <3>1. t \in grant[i] /\ Cardinality(grant[i]) = 1
      BY <1>1, <2>2 DEF SoleHolder
    <3>2. \A u \in Trans \ {t} : held[u][i] = "N"
      BY <1>1, <3>1, SoleHolderMode
    <3> QED BY <1>1, <3>2 DEF Compatible, mCompatibleTBL
  <2> QED BY <2>1, <2>2 DEF GrantHeavy
<1>3. Table!Grant(t, i, op[t].mode)
  BY <1>2, SameTables DEF GrantHeavy, Table!Grant
<1> QED BY <1>1, <1>3, SameTables DEF Table!Next

\* Giving back a slot, or the node, is a release of the abstract table.
LEMMA ReleaseReleases ==
  ASSUME IInv, NEW t \in Trans, NEW i \in Items, NEW m \in Mode, ReleaseNode(t, i, m)
  PROVE  Table!Next
<1> DEFINE kept == Decision(Kept(t, i, m))
<1>1. /\ kept \in Mode /\ Covers(held[t][i], kept)
      /\ held' = [held EXCEPT ![t][i] = kept]
  BY ReleaseNodeFacts DEF IInv, ItemInv
<1>2. Table!Release(t, i, kept)
  BY <1>1, SameTables DEF Table!Release, Covers
<1> QED BY <1>1, <1>2, SameTables DEF Table!Next

\* The wake-up of the head of a queue is a grant.
LEMMA WakeUpHeadGrants ==
  ASSUME IInv, NEW t \in Trans, NEW i \in Items, op[t].item = i, WakeUpHead(t)
  PROVE  Table!Next
<1> DEFINE u == Head(request[i])
           m == op[u].mode
           group == Conversion(mGrantLockMode[i], m)
           new == IF Compatible(m, mGrantLockMode[i])
                  THEN Conversion(held[u][i], m) ELSE group
<1>1. /\ pc[t] = "wakeup" /\ request[i] # <<>> /\ Grantable(u, i)
      /\ held' = [held EXCEPT ![u][i] = new]
  BY DEF WakeUpHead, Resume
<1>2. request[i] \in Seq(Trans) /\ IsInjective(request[i])
  BY DEF IInv, TypeOK, ItemInv, WaitItem
<1>3. u \in Trans /\ u \in ToSet(request[i])
  BY <1>1, <1>2, QueueTail
<1> HIDE DEF u
<1>4. mStatus[u] = "BLOCKED" /\ (cvs[u] <=> held[u][i] # "N")
  BY <1>3 DEF IInv, ItemInv, WaitItem
<1>5. m \in LockMode /\ m \in Mode /\ mGrantLockMode[i] \in Mode
  BY <1>3, <1>4 DEF IInv, TypeOK, OpInv, Waiting, Slot, LockMode
<1>6. /\ Summary(i) /\ \A v \in Trans : ~ Unseen(v, i)
      /\ grant[i] = {v \in Trans : held[v][i] # "N"}
  BY <1>1, LoopSummary DEF Summary
<1>7. /\ new = Conversion(held[u][i], m)
      /\ \A v \in Trans \ {u} : Compatible(held[v][i], m)
  <2>1. CASE Compatible(m, mGrantLockMode[i])
    <3>1. Compatible(mGrantLockMode[i], m)
      BY <1>5, <2>1, CompatibleSymmetric
    <3> QED BY <1>5, <1>6, <2>1, <3>1, GroupSpeaksForHolders
  <2>2. CASE ~ Compatible(m, mGrantLockMode[i])
    <3>1. u \in grant[i] /\ Cardinality(grant[i]) = 1
      BY <1>1, <1>3, <1>4, <1>6, <2>2 DEF Grantable
    <3>2. grant[i] = {u} /\ mGrantLockMode[i] = held[u][i]
      BY <1>6, <3>1, SoleHolderMode
    <3>3. \A v \in Trans \ {u} : held[v][i] = "N"
      BY <1>6, <3>2
    <3> QED BY <1>5, <2>2, <3>2, <3>3 DEF Compatible, mCompatibleTBL
  <2> QED BY <2>1, <2>2
<1> HIDE DEF m, new
<1>8. Table!Grant(u, i, m)
  BY <1>1, <1>7, SameTables DEF Table!Grant
<1> QED BY <1>3, <1>5, <1>8, SameTables DEF Table!Next

\* Granting the queue on the way to light mode is a grant.
LEMMA ToLightHeadGrants ==
  ASSUME IInv, NEW t \in Trans, NEW i \in Items, op[t].item = i, ToLightHead(t)
  PROVE  Table!Next
<1> DEFINE u == Head(request[i])
           m == op[u].mode
<1>1. /\ pc[t] = "toLight" /\ request[i] # <<>>
      /\ held' = [held EXCEPT ![u][i] = Conversion(held[u][i], m)]
  BY DEF ToLightHead, Resume
<1>2. request[i] \in Seq(Trans) /\ IsInjective(request[i])
  BY DEF IInv, TypeOK, ItemInv, WaitItem
<1>3. u \in Trans /\ u \in ToSet(request[i])
  BY <1>1, <1>2, QueueTail
<1> HIDE DEF u
<1>4. mStatus[u] = "BLOCKED"
  BY <1>3 DEF IInv, ItemInv, WaitItem
<1>5. m \in LockMode /\ m \in Mode
  BY <1>3, <1>4 DEF IInv, OpInv, Waiting, Slot, LockMode
<1>6. OnlyIntentHeld(i) /\ m \notin HeavyMode
  BY <1>1, <1>3 DEF IInv, ItemInv, TransitionItem, ToLight, At
<1>7. \A v \in Trans \ {u} : Compatible(held[v][i], m)
  <2>1. \A v \in Trans : held[v][i] \in Mode \ HeavyMode
    BY <1>6 DEF OnlyIntentHeld, IInv, TypeOK
  <2>2. m \in Mode \ HeavyMode
    BY <1>5, <1>6
  <2> QED BY <2>1, <2>2, IntentModes
<1> HIDE DEF m
<1>8. Table!Grant(u, i, m)
  BY <1>1, <1>7, SameTables DEF Table!Grant
<1> QED BY <1>3, <1>5, <1>8, SameTables DEF Table!Next

\* An interrupted wait changes nothing or releases what was just granted.
LEMMA SessionEventReleases ==
  ASSUME IInv, NEW t \in Trans, NEW i \in Items, op[t].item = i, SessionEvent(t)
  PROVE  Table!Next \/ UNCHANGED held
<1>1. UNCHANGED held \/ ReleaseNode(t, i, "N")
  BY DEF SessionEvent, LeaveQueue, ReleaseGranted, nodeVars
<1>2. "N" \in Mode
  BY DEF Mode
<1> QED BY <1>1, <1>2, ReleaseReleases

\* Every step of the lock manager is a step of the abstract table or invisible.
LEMMA StepRefines == IInv /\ [Next]_vars => [Table!Next]_held
<1> SUFFICES ASSUME IInv, [Next]_vars PROVE Table!Next \/ UNCHANGED held
  OBVIOUS
<1>1. CASE UNCHANGED vars
  BY <1>1 DEF vars, nodeVars
<1>2. ASSUME NEW t \in Trans, Call(t) PROVE UNCHANGED held
  BY <1>2 DEF Call, LockTable, UnlockSlot, EndTrans, nodeVars
<1>3. ASSUME NEW t \in Trans, Step(t) PROVE Table!Next \/ UNCHANGED held
  \* The steps that grant or release are taken inside lockTable or unlockTable.
  <2>1. CASE UNCHANGED held
    BY <2>1
  <2>2. CASE op[t].item \in Items
    <3> DEFINE i == op[t].item
    <3>0. i \in Items /\ op[t].item = i
      BY <2>2
    <3> HIDE DEF i
    <3>1. CASE LightLock(t) \/ LockInternalLight(t)
      BY <3>0, <3>1, GrantLightGrants
    <3>2. CASE GrantHeavy(t)
      BY <3>0, <3>2, GrantHeavyGrants
    <3>3. CASE WakeUpHead(t)
      BY <3>0, <3>3, WakeUpHeadGrants
    <3>4. CASE ToLightHead(t)
      BY <3>0, <3>4, ToLightHeadGrants
    <3>5. CASE LightUnlock(t) \/ UnlockHeavy(t)
      <4>1. ReleaseNode(t, i, op[t].mode) /\ op[t].mode \in Mode
        BY <3>0, <3>5 DEF LightUnlock, UnlockHeavy, ReleaseGranted, IInv, TypeOK
      <4> QED BY <3>0, <4>1, ReleaseReleases
    <3>6. CASE SessionEvent(t)
      BY <3>0, <3>6, SessionEventReleases
    <3>7. CASE \/ BeginHeavy(t) \/ (\E s \in Trans : Scan(t, s)) \/ Block(t) \/ NoWait(t)
               \/ (\E j \in Items : UnlockNode(t, j)) \/ EndDone(t)
               \/ Settle(t) \/ WakeUpDone(t) \/ ToLightDone(t) \/ WakeUp(t)
               \/ CheckDeadlock(t) \/ Deadlock(t) \/ TimeOut(t)
      BY <3>7 DEF BeginHeavy, Scan, Block, NoWait, UnlockNode, EndDone, Settle, Leave,
                  WakeUpDone, ToLightDone, WakeUp, CheckDeadlock, Deadlock, TimeOut,
                  LeaveQueue, nodeVars
    <3> QED BY <1>3, <3>1, <3>2, <3>3, <3>4, <3>5, <3>6, <3>7 DEF Step
  <2>3. CASE op[t].item \notin Items
    <3>1. pc[t] \in {"run", "end"}
      BY <2>3 DEF IInv, TypeOK, OpInv, PC, Slot
    <3>2. (\E j \in Items : UnlockNode(t, j)) \/ EndDone(t)
      BY <1>3, <3>1 DEF Step, LightLock, LockInternalLight, BeginHeavy, Scan,
           GrantHeavy, Block, NoWait, AtDecision, LightUnlock, UnlockHeavy, Settle,
           WakeUpHead, WakeUpDone, ToLightHead, ToLightDone, WakeUp, CheckDeadlock,
           Deadlock, TimeOut, SessionEvent, Waiting
    <3> QED BY <3>2 DEF UnlockNode, EndDone, nodeVars
  <2> QED BY <2>2, <2>3
<1> QED BY <1>1, <1>2, <1>3 DEF Next

\* The lock manager implements TableLock: light path, first DDL, conversion,
\* wake-up and the return to light mode only ever grant one transaction a mode
\* that every other holder's mode allows.
THEOREM Implementation == Spec => ImplementsTableLock
<1>1. Init => Table!Init
  BY DEF Init, Table!Init
<1>2. Spec => Table!Spec
  BY <1>1, StepRefines, Invariance, PTL DEF Spec, Table!Spec
<1> QED BY <1>2 DEF ImplementsTableLock

\* No two transactions ever hold modes on one item that mCompatibleTBL excludes.
THEOREM MutualExclusion == Spec => []GrantedCompatible
<1>1. Init => GrantedCompatible
  BY DEF Init, GrantedCompatible, Compatible, mCompatibleTBL, Mode
<1>2. IInv /\ GrantedCompatible /\ [Table!Next]_held => GrantedCompatible'
  <2> SUFFICES ASSUME IInv, GrantedCompatible, [Table!Next]_held
               PROVE  GrantedCompatible'
    OBVIOUS
  <2>0. /\ held \in [Trans -> [Items -> Mode]]
        /\ \A i \in Items : \A t, u \in Trans :
             t # u => Compatible(held[t][i], held[u][i])
    BY DEF IInv, TypeOK, GrantedCompatible
  <2>1. CASE UNCHANGED held
    BY <2>0, <2>1 DEF GrantedCompatible
  <2>2. ASSUME NEW t \in Trans, NEW i \in Items, NEW m \in LockMode, Table!Grant(t, i, m)
        PROVE  GrantedCompatible'
    <3>1. /\ held' = [held EXCEPT ![t][i] = Conversion(held[t][i], m)]
          /\ \A u \in Trans \ {t} : Compatible(held[u][i], m)
      BY <2>2, SameTables DEF Table!Grant
    <3>2. m \in Mode /\ Conversion(held[t][i], m) \in Mode
      BY <2>0, ConversionType DEF LockMode
    <3>3. \A u \in Trans \ {t} :
            /\ Compatible(Conversion(held[t][i], m), held[u][i])
            /\ Compatible(held[u][i], Conversion(held[t][i], m))
      BY <2>0, <3>1, <3>2, CompatibleSymmetric, ConversionCompatible
    <3>4. \A u \in Trans, j \in Items :
            held'[u][j] = IF u = t /\ j = i THEN Conversion(held[t][i], m) ELSE held[u][j]
      BY <2>0, <3>1
    <3> QED BY <2>0, <3>3, <3>4 DEF GrantedCompatible
  <2>3. ASSUME NEW t \in Trans, NEW i \in Items, NEW kept \in Mode, Table!Release(t, i, kept)
        PROVE  GrantedCompatible'
    <3>1. held' = [held EXCEPT ![t][i] = kept] /\ Covers(held[t][i], kept)
      BY <2>3, SameTables DEF Table!Release, Covers
    <3>2. \A u \in Trans \ {t} :
            Compatible(kept, held[u][i]) /\ Compatible(held[u][i], kept)
      BY <2>0, <3>1, CoversCompatible, CompatibleSymmetric
    <3>3. \A u \in Trans, j \in Items :
            held'[u][j] = IF u = t /\ j = i THEN kept ELSE held[u][j]
      BY <2>0, <3>1
    <3> QED BY <2>0, <3>2, <3>3 DEF GrantedCompatible
  <2> QED BY <2>1, <2>2, <2>3, SameTables DEF Table!Next
<1> QED BY <1>1, <1>2, StepRefines, Invariance, PTL DEF Spec
=============================================================================
