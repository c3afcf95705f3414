------------------------------ MODULE MCLockMgr ------------------------------
(***************************************************************************)
(* LockMgr on small instances.                                             *)
(***************************************************************************)
EXTENDS LockMgrInv, TLC

Symmetry == Permutations(Trans) \cup Permutations(Items)
=============================================================================
