---------------------------- MODULE MCWorkerPool ----------------------------
(* Small instances of WorkerPool for TLC. *)
EXTENDS WorkerPool, TLC

Symmetry == Permutations(Callers) \union Permutations(Workers)
=============================================================================
