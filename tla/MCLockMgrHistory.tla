--------------------------- MODULE MCLockMgrHistory ---------------------------
(***************************************************************************)
(* LockMgrHistory on small instances.                                      *)
(***************************************************************************)
EXTENDS LockMgrHistory, TLC

Symmetry == Permutations(Trans)
=============================================================================
