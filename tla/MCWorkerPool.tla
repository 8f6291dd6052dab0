---------------------------- MODULE MCWorkerPool ----------------------------
(***************************************************************************)
(* Small instances of WorkerPool for TLC.  Workers and clients are         *)
(* interchangeable, so the runs that check no liveness use the symmetry.   *)
(***************************************************************************)
EXTENDS WorkerPool, TLC

PoolSymmetry == Permutations(Workers) \cup Permutations(Clients)
=============================================================================
