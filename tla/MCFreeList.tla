----------------------------- MODULE MCFreeList -----------------------------
EXTENDS FreeList, TLC

\* Threads do the same, and so do blocks.
Symmetry == Permutations(Threads) \union Permutations(Blocks)
=============================================================================
