---------------------------- MODULE DurableStore ----------------------------
(***************************************************************************)
(* What the log, the checkpoints and the restart recovery promise to the   *)
(* users of memory tables.  Transactions take the store from one committed *)
(* state to the next.  A crash may undo the last of them, but none whose   *)
(* commit has been acknowledged as durable, and never one without all      *)
(* later ones; after the restart the store is again in a committed state.  *)
(***************************************************************************)
EXTENDS Naturals, Sequences

VARIABLES
  history,  \* the committed states, oldest first
  acked,    \* how many of them are known to be durable
  view      \* {s}: the store serves s; {}: it is down

vars == <<history, acked, view>>

LatestOf(h) == h[Len(h)]

Init ==
  /\ Len(history) = 1
  /\ acked = 1
  /\ view = {LatestOf(history)}

\* Some commits are acknowledged as durable, and all before them are then, too.
Commit ==
  /\ view # {}
  /\ Len(history') = Len(history) + 1
  /\ SubSeq(history', 1, Len(history)) = history
  /\ view' = {LatestOf(history')}
  /\ acked' \in {acked, Len(history')}

Crash ==
  /\ \E n \in acked .. Len(history) : history' = SubSeq(history, 1, n)
  /\ view' = {}
  /\ UNCHANGED acked

Restarted ==
  /\ view = {}
  /\ view' = {LatestOf(history)}
  /\ UNCHANGED <<history, acked>>

Next == Commit \/ Crash \/ Restarted

Spec == Init /\ [][Next]_vars
=============================================================================
