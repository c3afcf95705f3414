------------------------------ MODULE Reclaim ------------------------------
(***************************************************************************)
(* What the garbage collection of the memory tables promises.  A version   *)
(* is put into a slot and linked into the index; readers reach it through  *)
(* the index and hold on to it without any latch; its link is cut; it is   *)
(* released when nobody holds it, and its slot may be used again.          *)
(***************************************************************************)
CONSTANTS Versions, Readers

VARIABLES
  store,    \* slots that hold a version
  linked,   \* versions with a key in the index
  held      \* versions each reader holds

vars == <<store, linked, held>>

Init ==
  /\ store \subseteq Versions
  /\ linked = store
  /\ held = [r \in Readers |-> {}]

Put(v) ==
  /\ v \notin store
  /\ store' = store \cup {v}
  /\ linked' = linked \cup {v}
  /\ UNCHANGED held

Reach(r, v) ==
  /\ v \in linked
  /\ held' = [held EXCEPT ![r] = @ \cup {v}]
  /\ UNCHANGED <<store, linked>>

LetGo(r) ==
  /\ held' = [held EXCEPT ![r] = {}]
  /\ UNCHANGED <<store, linked>>

Cut ==
  /\ linked' \subseteq linked
  /\ UNCHANGED <<store, held>>

Release ==
  /\ store' \subseteq store
  /\ UNCHANGED <<linked, held>>
  /\ \A v \in store \ store' : v \notin linked /\ \A r \in Readers : v \notin held[r]

Next ==
  \/ Cut \/ Release
  \/ \E r \in Readers : LetGo(r) \/ \E v \in Versions : Reach(r, v)
  \/ \E v \in Versions : Put(v)

Spec == Init /\ [][Next]_vars
=============================================================================
