----------------------------- MODULE MCViewSCN -----------------------------
\* Instance of ViewSCN for TLC.
EXTENDS ViewSCN, TLC

Symmetry == Permutations(Stmts)
=============================================================================
