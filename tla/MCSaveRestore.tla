----------------------------- MODULE MCSaveRestore -----------------------------
EXTENDS SaveRestore, TLC
CONSTANTS f1, f2
Symmetry == Permutations(File)
=============================================================================
