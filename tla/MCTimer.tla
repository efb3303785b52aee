------------------------------ MODULE MCTimer ------------------------------
(* Model checking of TimerManager: the values are in MCTimer*.cfg.         *)
EXTENDS TimerManager, TLC

\* Workers are interchangeable (safety runs only).
Symmetry == Permutations(Workers)
=============================================================================
