------------------------------ MODULE MCConnMemory -----------------------------
EXTENDS ConnMemory, TLC
Symmetry == Permutations(Conns) \cup Permutations(Pieces)
===============================================================================
