----------------------------- MODULE MC_Session -----------------------------
EXTENDS Session, TLC
CONSTANTS r1, r2
Symmetry == Permutations(Slots)
=============================================================================
