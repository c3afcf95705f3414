------------------------------ MODULE TableLock ------------------------------
(***************************************************************************)
(* What the table-lock manager promises its clients: each transaction      *)
(* holds at most one mode on each item, a mode is granted only beside      *)
(* modes it is compatible with, and is merged with the one already held.   *)
(***************************************************************************)
EXTENDS LockModes

CONSTANTS Trans, Items

VARIABLE held

Init == held = [t \in Trans |-> [i \in Items |-> "N"]]

\* smlLockMgr::lockTable, seen from outside
Grant(t, i, m) ==
  /\ \A u \in Trans \ {t} : Compatible(held[u][i], m)
  /\ held' = [held EXCEPT ![t][i] = Conversion(@, m)]

\* smlLockMgr::unlockTable, seen from outside: what is kept is covered by
\* what was held.
Release(t, i, kept) ==
  /\ Conversion(held[t][i], kept) = held[t][i]
  /\ held' = [held EXCEPT ![t][i] = kept]

Next == \E t \in Trans, i \in Items :
          \/ \E m \in LockMode : Grant(t, i, m)
          \/ \E kept \in Mode : Release(t, i, kept)

Spec == Init /\ [][Next]_held
=============================================================================
