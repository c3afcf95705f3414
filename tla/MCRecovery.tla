----------------------------- MODULE MCRecovery -----------------------------
\* Instances of Recovery for TLC: each row in a page of its own, or all in one.
EXTENDS Recovery, TLC

MCPageOf == [r \in Rows |-> r]
MCOnePage == [r \in Rows |-> CHOOSE p \in Pages : TRUE]
Symmetry == Permutations(Rows) \cup Permutations(Trans)

\* A constraint that loses nothing: missed only grows, and what its run checks
\* says nothing of a state in which it is not empty.
NoneMissed == missed = {}
=============================================================================
