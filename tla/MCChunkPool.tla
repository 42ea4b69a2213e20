---------------------------- MODULE MCChunkPool ----------------------------
EXTENDS ChunkPool, TLC

\* Threads and chunks are interchangeable.
Symmetry == Permutations(Threads) \cup Permutations(Chunks)

=============================================================================
