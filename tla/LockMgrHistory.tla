---------------------------- MODULE LockMgrHistory ----------------------------
(***************************************************************************)
(* LockMgr with a history variable: the modes that lockTable has reported  *)
(* to its client as locked and that the client has not given back.  They   *)
(* include the modes of the early return, which leave no lock slot: the    *)
(* node's mode covered them already.                                       *)
(***************************************************************************)
EXTENDS LockMgrInv

VARIABLE acked

hvars == <<vars, acked>>

HInit == Init /\ acked = [t \in Trans |-> [i \in Items |-> {}]]

\* lockTable returns IDE_SUCCESS without a lock slot.
EarlyReturn(t, i, m) ==
  /\ pc[t] = "run"
  /\ ~ NeedsLock(t, i, m)
  /\ acked' = [acked EXCEPT ![t][i] = @ \cup {m}]
  /\ UNCHANGED vars

\* lockTable returns IDE_SUCCESS with a new slot.
Locks(t) == Len(slots'[t]) > Len(slots[t])

\* unlockTable has released a slot or, with mode "N", the node.
Unlocks(t) ==
  /\ pc[t] \in {"lightUnlock", "unlock"}
  /\ pc'[t] # pc[t]

\* What the client still counts on.  Its IS slot goes at the end of the
\* statement that took it (partialItemUnlock) and leaves the other modes; any
\* other slot goes with all that was locked after it.
StillAcked(t, i, m) ==
  IF m = "IS" THEN acked[t][i] \ {"IS"} ELSE acked[t][i] \cap Kept(t, i, m)

HStep(t) ==
  /\ Step(t) \/ Call(t)
  /\ acked' = IF Locks(t)
              THEN [acked EXCEPT ![t][op[t].item] = @ \cup {op[t].mode}]
              ELSE IF Unlocks(t)
              THEN [acked EXCEPT ![t][op[t].item] =
                      StillAcked(t, op[t].item, op[t].mode)]
              ELSE acked

HNext == \E t \in Trans :
  HStep(t) \/ \E i \in Items, m \in AskedMode : EarlyReturn(t, i, m)

HSpec == HInit /\ [][HNext]_hvars
HFairSpec == HSpec /\ Fairness

\* t was converted for item i while it was suspended, and has yet to put the bit into
\* its node's mask.
ConversionDue(t, i) ==
  Waiting(t) /\ mStatus[t] = "BEGIN" /\ cvs[t] /\ op[t].item = i

\* A node's mode is what its mask decides: no more, so that it can be computed anew
\* when a bit goes.
ModeInv(t) ==
  \A i \in Items :
    LET decided == Decision(nodeFlag[t][i]) IN
    held[t][i] = IF ConversionDue(t, i) THEN Conversion(decided, op[t].mode) ELSE decided

\* The inductive invariant where no session event ends a wait: one that comes after the
\* conversion leaves a mode that no bit stands for.
HInv ==
  /\ IInv /\ WaitInv /\ DeadlockInv
  /\ \A t \in Trans : ModeInv(t)
  /\ acked \in [Trans -> [Items -> SUBSET LockMode]]

\* A mode that lockTable has reported as locked stays covered by the mode the
\* transaction holds until the client gives it back: releasing the IS slot at a
\* statement's end takes away IS and nothing else.
AckedIsHeld ==
  \A t \in Trans, i \in Items : \A m \in acked[t][i] :
    Conversion(held[t][i], m) = held[t][i]
=============================================================================
