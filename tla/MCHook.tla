------------------------------- MODULE MCHook -------------------------------
EXTENDS Hook, TLC
Symmetry == Permutations(Fibers)
=============================================================================
