------------------------------ MODULE LockModes ------------------------------
(***************************************************************************)
(* The lock modes of the table-lock manager and the three constant tables  *)
(* every decision of it is read from (sml/smlLockMgr.cpp 148-201).         *)
(*                                                                         *)
(* A mode is named by what follows SML_ in the source; "N" is SML_NLOCK.   *)
(* A bit mask (mFlag of an item or of a node) is the set of the modes      *)
(* whose bit (mLockModeToMask) is on.                                      *)
(***************************************************************************)

Mode == {"N", "S", "X", "IS", "IX", "SIX"}

\* The modes a transaction may ask for.
LockMode == Mode \ {"N"}

\* The modes an item in light mode may be locked in.
IntentMode == {"IS", "IX"}

\* The modes that take an item out of light mode.
HeavyMode == {"S", "X", "SIX"}

(***************************************************************************)
(* mCompatibleTBL: for each mode, the modes it can be granted beside.      *)
(***************************************************************************)
mCompatibleTBL ==
  [N   |-> Mode,
   S   |-> {"N", "S", "IS"},
   X   |-> {"N"},
   IS  |-> {"N", "S", "IS", "IX", "SIX"},
   IX  |-> {"N", "IS", "IX"},
   SIX |-> {"N", "IS"}]

Compatible(a, b) == b \in mCompatibleTBL[a]

(***************************************************************************)
(* mConversionTBL: the mode that a holder of the first has after it is     *)
(* granted the second.                                                     *)
(***************************************************************************)
mConversionTBL ==
  [N   |-> [N |-> "N",   S |-> "S",   X |-> "X", IS |-> "IS",  IX |-> "IX",  SIX |-> "SIX"],
   S   |-> [N |-> "S",   S |-> "S",   X |-> "X", IS |-> "S",   IX |-> "SIX", SIX |-> "SIX"],
   X   |-> [N |-> "X",   S |-> "X",   X |-> "X", IS |-> "X",   IX |-> "X",   SIX |-> "X"],
   IS  |-> [N |-> "IS",  S |-> "S",   X |-> "X", IS |-> "IS",  IX |-> "IX",  SIX |-> "SIX"],
   IX  |-> [N |-> "IX",  S |-> "SIX", X |-> "X", IS |-> "IX",  IX |-> "IX",  SIX |-> "SIX"],
   SIX |-> [N |-> "SIX", S |-> "SIX", X |-> "X", IS |-> "SIX", IX |-> "SIX", SIX |-> "SIX"]]

Conversion(a, b) == mConversionTBL[a][b]

(***************************************************************************)
(* mDecisionTBL: the one mode that stands for a mask of modes.             *)
(***************************************************************************)
Decision(flag) ==
  IF "X" \in flag THEN "X"
  ELSE IF "SIX" \in flag \/ {"S", "IX"} \subseteq flag THEN "SIX"
  ELSE IF "S" \in flag THEN "S"
  ELSE IF "IX" \in flag THEN "IX"
  ELSE IF "IS" \in flag THEN "IS"
  ELSE "N"
=============================================================================
