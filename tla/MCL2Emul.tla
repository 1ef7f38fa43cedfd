------------------------------ MODULE MCL2Emul ------------------------------
\* Instance of L2Emul for TLC: the cores are interchangeable.
EXTENDS L2Emul, TLC
Symmetry == Permutations(Core)
=============================================================================
