---------------------------- MODULE MCMpmcQueue ----------------------------
EXTENDS MpmcQueue, TLC

Symmetry == Permutations(Threads) \union Permutations(Values)
=============================================================================
