----------------------------- MODULE MCDataPool -----------------------------
EXTENDS DataPool, TLC
CONSTANTS t1, t2, t3, a, b, c
ItemSymmetry == Permutations(Items)
=============================================================================
