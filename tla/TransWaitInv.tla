---------------------------- MODULE TransWaitInv ----------------------------
(***************************************************************************)
(* The inductive invariant of TransWait, as long as freeAllRecordLock does *)
(* not come upon the column of a transaction that waits for the table.     *)
(***************************************************************************)
EXTENDS TransWait

\* What freeAllRecordLock of t has before it, the waiters linked, and the one resumed.
ToFree(t, w) ==
  \/ pc[t] = "free" /\ w \in ToSet(recList[t])
  \/ pc[t] = "resumed" /\ w = cur[t]

\* Of those nobody waits for the table on account of t.  A t with legacy transactions
\* may have kept IS there: freeAllRecordLock would resume the waiter, whose request
\* stays in the queue, or clear the column of a wait that goes on.
NoTableLink ==
  \A t, w \in Trans : ToFree(t, w) /\ ForTable(w) => mIndex[w][t] # 1

\* Then this does not happen.
NoLegacyBesideTable == MaxLegacy = 0 \/ AskedTable = {}

\* Between the registration and the way back.
InWait(t) == pc[t] \in {"suspended1", "check", "suspended2", "giveUp"}

Blocked(t) == mStatus[t] = "BLOCKED"

\* What a thread knows of its call at each place.
ThreadInv(t) ==
  /\ pc[t] \in {"idle", "run", "ending", "free", "resumed"} => want[t] = Nothing
  /\ pc[t] \in {"row", "call"} => ForRow(t)
  /\ InWait(t) => want[t] # Nothing
  /\ ForRow(t) /\ pc[t] # "row" => target[t].slot \in Trans \ {t}
  /\ ForRow(t) => owner[want[t]] # t
  /\ Blocked(t) => InWait(t)
  /\ pc[t] = "resumed" => cur[t] \in Trans

\* A transaction that has ended, or is about to, owns no row, and once it has freed
\* its table locks it has none, or IS for its legacy transactions.
EndInv(t) ==
  /\ pc[t] \in {"idle", "ending", "free", "resumed"} => \A r \in Rows : owner[r] # t
  /\ pc[t] \in {"free", "resumed"} => tbl[t] = "N" \/ legacy[t] # {}
  /\ MaxLegacy = 0 => legacy[t] = {}
  /\ AskedTable = {} => tbl[t] = "N" /\ ~ ForTable(t)

\* A row of the wait-for table: what is set is linked, nothing is linked outside a
\* wait, and isCycle has gone as far as it has linked columns.
ChainInv(t) ==
  /\ \A u \in Trans : mIndex[t][u] # 0 => u \in chain[t]
  /\ chain[t] # {} => InWait(t)
  /\ pc[t] # "giveUp" => t \notin chain[t]
  /\ pc[t] = "suspended1" => chain[t] # {} /\ \A u \in Trans : mIndex[t][u] <= 1
  /\ pc[t] = "check" =>
       LET last == IF path[t].more THEN path[t].len + 1 ELSE path[t].len IN
       /\ path[t].len # 0 /\ path[t].todo \subseteq chain[t]
       /\ last <= Cardinality(chain[t])
       /\ \A u \in chain[t] : mIndex[t][u] <= last

\* The wait for a row: one column of length 1, and as long as nobody has resumed the
\* waiter, the transaction it waits for has it in its list and will look there.
RowInv(t) ==
  ForRow(t) /\ InWait(t) =>
    LET h == target[t].slot IN
    /\ \A u \in Trans : mIndex[t][u] = 1 => u = h
    /\ Blocked(t) =>
         /\ mTransID[h] = target[t].tid /\ mStatus[h] # "END"
         /\ mIndex[t][h] = 1 /\ h \in chain[t] /\ t \in ToSet(recList[h])
         /\ ~ (pc[h] = "resumed" /\ cur[h] = t)

\* The list of h: who is in it with a column set sleeps.
ListInv(h) ==
  /\ IsInjective(recList[h])
  /\ \A t \in ToSet(recList[h]) : mIndex[t][h] = 1 => Blocked(t)

\* u is queued before t.
Ahead(u, t) == \E k, l \in DOMAIN queue : k < l /\ queue[k] = u /\ queue[l] = t

\* The wait for the table.
TableInv(t) ==
  /\ t \in ToSet(queue) <=> ForTable(t) /\ Blocked(t)
  /\ ForTable(t) /\ ~ Blocked(t) =>
       /\ tbl[t] = want[t] /\ pc[t] # "check"
       /\ \A u \in Trans : mIndex[t][u] = 0
  /\ ForTable(t) => \A u \in Trans :
       mIndex[t][u] = 1 => u # t /\ (tbl[u] # "N" \/ u \in ToSet(queue))
  /\ t \in ToSet(queue) => \A u \in Trans \ {t} :
       tbl[u] # "N" \/ Ahead(u, t) => mIndex[t][u] = 1

\* One waiter at a time has the mutex of the table.
ItemInv ==
  /\ IsInjective(queue)
  /\ \A t, u \in Trans :
       /\ ForTable(t) /\ pc[t] \in {"check", "giveUp"}
       /\ ForTable(u) /\ pc[u] \in {"check", "giveUp"}
       => t = u

WInv ==
  /\ TypeOK /\ ItemInv
  /\ \A t \in Trans : /\ ThreadInv(t) /\ EndInv(t) /\ ChainInv(t)
                      /\ RowInv(t) /\ ListInv(t) /\ TableInv(t)

-----------------------------------------------------------------------------
(* The deadlock check.                                                     *)

Edge(t, u) == u \in chain[t] /\ mIndex[t][u] = 1

\* Suspended, with the deadlock check before it, under way or done.
Sleeps(t) == Blocked(t) /\ pc[t] \in {"suspended1", "check", "suspended2"}

\* A deadlock in the wait-for table.
Closed(D) == D # {} /\ \A t \in D : Sleeps(t) /\ \E u \in D : Edge(t, u)

\* No column of E that isCycle has linked for w is cleared, and of those whose turn
\* has come it has linked all that they wait for.
Searched(w, E) ==
  \A i \in E : i \in chain[w] =>
    /\ mIndex[w][i] # 0
    /\ \/ mIndex[w][i] < path[w].len
       \/ mIndex[w][i] = path[w].len /\ i \notin path[w].todo
       => \A j \in E : Edge(i, j) => j \in chain[w]

\* One of the deadlocked is still to find it.
Seeker(w, E) ==
  \/ pc[w] = "suspended1" /\ \A i \in E : i \in chain[w] => mIndex[w][i] # 0
  \/ pc[w] = "check" /\ Searched(w, E)

Detectable(D) == \E E \in SUBSET D : Closed(E) /\ \E w \in E : Seeker(w, E)

DeadlockInv == \A D \in SUBSET Trans : Closed(D) => Detectable(D)
=============================================================================
