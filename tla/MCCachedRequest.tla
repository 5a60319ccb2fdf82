----------------------------- MODULE MCCachedRequest -----------------------------
EXTENDS CachedRequest, TLC
CONSTANTS t1, t2
Symmetry == Permutations(Thread)
================================================================================
