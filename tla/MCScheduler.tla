---------------------------- MODULE MCScheduler ----------------------------
(* Model checking of Scheduler: the values are in MCSched*.cfg.            *)
EXTENDS Scheduler, TLC

\* Workers and callbacks are interchangeable (safety runs).
Symmetry == Permutations(Workers) \union Permutations(Cbs)
=============================================================================
