------------------------------ MODULE MCPubSub ------------------------------
EXTENDS PubSub, TLC

\* Threads, inner maps and messages are interchangeable; so are the channels
\* while all of them are read.
Symmetry == Permutations(Threads) \cup Permutations(Maps) \cup Permutations(Msgs)
            \cup Permutations(Readers)
=============================================================================
