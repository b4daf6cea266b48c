---------------------------- MODULE MCAbciSocket ----------------------------
EXTENDS AbciSocket, TLC

\* Requests of one kind are interchangeable, and so are the callers.
Symmetry == Permutations(Callers) \cup Permutations(Txs) \cup Permutations(Flushes)
=============================================================================
