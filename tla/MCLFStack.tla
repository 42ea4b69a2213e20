----------------------------- MODULE MCLFStack -----------------------------
EXTENDS LFStack, TLC

\* Threads and nodes are interchangeable.
Symmetry == Permutations(Threads) \cup Permutations(Nodes)

=============================================================================
