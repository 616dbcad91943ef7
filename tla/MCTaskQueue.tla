---------------------------- MODULE MCTaskQueue ----------------------------
(* TLC instance of the task queue.                                         *)
EXTENDS TaskQueue, TLC

Symmetry == Permutations(Clients)
=============================================================================
