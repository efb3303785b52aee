---------------------------- MODULE MCIOManager ----------------------------
(* IOManager on small instances.                                           *)
EXTENDS IOManager, TLC

Symmetry == Permutations(Tasks) \union Permutations(Dispatchers)
=============================================================================
