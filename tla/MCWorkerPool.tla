---------------------------- MODULE MCWorkerPool ----------------------------
(* WorkerPool for TLC: interchangeable workers.                             *)
EXTENDS WorkerPool, TLC

WorkerSymmetry == Permutations(Worker)
=============================================================================
