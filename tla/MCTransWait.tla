---------------------------- MODULE MCTransWait ----------------------------
(***************************************************************************)
(* TransWait for TLC: transaction slots and rows are interchangeable.      *)
(***************************************************************************)
EXTENDS TransWaitInv

Symmetry == Permutations(Trans) \cup Permutations(Rows)
=============================================================================
