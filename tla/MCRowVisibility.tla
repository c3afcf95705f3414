-------------------------- MODULE MCRowVisibility --------------------------
\* Instance of RowVisibility for TLC.
EXTENDS RowVisibility, TLC

Symmetry == Permutations(Stmts)
=============================================================================
