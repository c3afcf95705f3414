------------------------------ MODULE LockMgrInv ------------------------------
(***************************************************************************)
(* The inductive invariant of LockMgr: what every critical section finds   *)
(* and leaves, the half-finished ones included.                            *)
(***************************************************************************)
EXTENDS LockMgr

\* Mode a allows all that mode b allows.
Covers(a, b) == Conversion(a, b) = a

\* What the counts, the mask and the group mode say of the transactions G in
\* a grant list, which hold the modes h.
Counted(count, G, h) ==
  \A m \in LockMode : count[m] = Cardinality({u \in G : h[u] = m})

MaskOf(G, h) == {h[u] : u \in G}

ModesOf(i) == [t \in Trans |-> held[t][i]]

\* Thread t is at `where' in an operation on item i.
At(t, where, i) == pc[t] = where /\ op[t].item = i

Scanned(i) == \E t \in Trans : At(t, "scan", i)

\* The list of t is still to be visited by the scan for item i.
Unseen(t, i) == \E s \in Trans : At(s, "scan", i) /\ t \in scan[s]

ToLight(i) == \E t \in Trans : At(t, "toLight", i)

OnlyIntentHeld(i) == \A t \in Trans : held[t][i] \notin HeavyMode

\* A thread inside lockTable or unlockTable knows item and mode; only one that
\* waits is blocked, only one on its way out has something left to do.
OpInv ==
  \A t \in Trans :
    /\ pc[t] \in {"lightLock", "lock", "scan", "wait", "checked"} => op[t] \in Slot
    /\ pc[t] \in {"lightUnlock", "unlock", "settle", "wakeup", "toLight"} =>
         op[t].item \in Items
    /\ pc[t] = "lightLock" => op[t].mode \in IntentMode
    /\ mStatus[t] = "BLOCKED" => Waiting(t)
    /\ after[t] = "abort" => pc[t] \in {"settle", "wakeup", "toLight"}
    /\ after[t] = "end" =>
         pc[t] \in {"lightUnlock", "unlock", "settle", "wakeup", "toLight"}

\* A loop over the lists of an item runs under its mutex, and nothing else
\* keeps the mutex across a step.
MutexItem(i) ==
  \A t \in Trans : mutex[i] = t <=> InLoop(t) /\ op[t].item = i

\* The request list has the blocked transactions, with an mCvsLockNode those
\* that hold something; a woken one has at least the mode it asked for.
WaitItem(i) ==
  /\ IsInjective(request[i])
  /\ \A t \in Trans :
       /\ t \in ToSet(request[i]) <=> mStatus[t] = "BLOCKED" /\ op[t].item = i
       /\ t \in ToSet(request[i]) => (cvs[t] <=> held[t][i] # "N")
       /\ Waiting(t) /\ mStatus[t] = "BEGIN" /\ op[t].item = i =>
            Covers(held[t][i], op[t].mode)

\* A node's mode covers all that it was locked in.
NodeItem(i) ==
  \A t \in Trans : \A m \in nodeFlag[t][i] : Covers(held[t][i], m)

\* An item in light mode is as clearLockItem left it.
LightItem(i) ==
  Light(i) =>
    /\ mutex[i] = NoTrans
    /\ grant[i] = {} /\ request[i] = <<>>
    /\ mGrantLockMode[i] = "N"
    /\ mArrLockCount[i] = [m \in LockMode |-> 0]
    /\ OnlyIntentHeld(i)

\* A transaction that saw light mode under its list mutex is not yet visited.
ListMutexItem(i) ==
  \A t \in Trans :
    HoldsListMutex(t) /\ op[t].item = i => Light(i) \/ Unseen(t, i)

\* On the way out of light mode, and back, nobody holds a heavy mode.
TransitionItem(i) ==
  /\ Scanned(i) => OnlyIntentHeld(i) /\ request[i] = <<>>
  /\ ToLight(i) =>
       /\ OnlyIntentHeld(i) /\ grant[i] = {}
       /\ \A t \in Trans : t \in ToSet(request[i]) => op[t].mode \notin HeavyMode

\* Out of light mode the lists and their summary are exact, except for those
\* that a scan has yet to visit and while the grant list is taken apart.
Summary(i) ==
  /\ grant[i] = {t \in Trans : held[t][i] # "N" /\ ~ Unseen(t, i)}
  /\ Counted(mArrLockCount[i], grant[i], ModesOf(i))
  /\ mFlag[i] = MaskOf(grant[i], ModesOf(i))
  /\ mGrantLockMode[i] = Decision(mFlag[i])

HeavyItem(i) == ~ Light(i) /\ ~ ToLight(i) => Summary(i)

ItemInv(i) ==
  /\ MutexItem(i) /\ WaitItem(i) /\ NodeItem(i) /\ LightItem(i)
  /\ ListMutexItem(i) /\ TransitionItem(i) /\ HeavyItem(i)

IInv == TypeOK /\ OpInv /\ \A i \in Items : ItemInv(i)

-----------------------------------------------------------------------------
(* What the queues, the wait-for table and the slot lists add to it.       *)

\* u is queued before t.
Ahead(u, t, q) == \E k, l \in DOMAIN q : k < l /\ q[k] = u /\ q[l] = t

\* The head of the queue cannot be granted while nobody has the item's mutex.
QueueItem(i) ==
  Stable(i) /\ request[i] # <<>> => ~ Grantable(Head(request[i]), i)

\* Until the grant list is taken apart, a queued request has an edge to each
\* other holder, compatible or not, and to each request before it: what those
\* are granted later adds no obstacle without an edge.
EdgeItem(i) ==
  ~ ToLight(i) =>
    \A t, u \in Trans :
      /\ t \in ToSet(request[i]) /\ u # t
      /\ u \in grant[i] \/ Ahead(u, t, request[i])
      => u \in waitsFor[t]

\* The chain of an earlier wait is gone when the next begins.
ChainInv(t) == chain[t] # {} => Waiting(t) \/ after[t] = "abort"

SlotModes(t, i) == {m \in LockMode : HasSlot(t, i, m)}

\* The request of t for item i was granted as a new node while t was suspended; t
\* will add the slot when it runs again.
SlotDue(t, i) ==
  Waiting(t) /\ mStatus[t] = "BEGIN" /\ ~ cvs[t] /\ op[t].item = i

\* The mask of a node is that of its slots, until the transaction ends; a lock that
\* is being taken has no slot yet.
AccountInv(t) ==
  /\ IsInjective(slots[t])
  /\ pc[t] # "end" /\ after[t] # "end" =>
       \A i \in Items :
         IF SlotDue(t, i)
         THEN SlotModes(t, i) = {} /\ nodeFlag[t][i] = {op[t].mode}
         ELSE nodeFlag[t][i] = SlotModes(t, i)
  /\ pc[t] \in {"lightLock", "lock", "scan", "wait", "checked"} =>
       op[t] \notin ToSet(slots[t])
  /\ pc[t] \in {"lightUnlock", "unlock"} /\ after[t] # "end" => op[t] \in Slot

WaitInv ==
  /\ \A i \in Items : QueueItem(i) /\ EdgeItem(i)
  /\ \A t \in Trans : ChainInv(t) /\ AccountInv(t)

-----------------------------------------------------------------------------
(* What the deadlock check adds.                                           *)

\* A deadlock in the wait-for table: suspended transactions, each with an edge to one
\* of them.  An item that goes back to light mode is about to grant its whole queue.
Closed(D) ==
  /\ D # {}
  /\ \A t \in D :
       /\ mStatus[t] = "BLOCKED" /\ ~ ToLight(op[t].item)
       /\ \E u \in D : u \in waitsFor[t]

\* One of the deadlocked has its check before it, and no column that is still linked in
\* its chain, though cleared, hides one of them from it.
Detectable(D) ==
  \E E \in SUBSET D :
    /\ Closed(E)
    /\ \E w \in E : pc[w] = "wait" /\ \A v \in E : v \in chain[w] => v \in waitsFor[w]

DeadlockInv == \A D \in SUBSET Trans : Closed(D) => Detectable(D)
=============================================================================
