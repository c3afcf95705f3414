----------------------------- MODULE MCMemAger -----------------------------
\* Instance of MemAger for TLC.
EXTENDS MemAger, TLC
=============================================================================
