---------------------------- MODULE MCWorkerLane ----------------------------
(* Instances of WorkerLane for TLC. *)
EXTENDS WorkerLane, TLC

CONSTANTS i1, i2

Instances == Permutations(Instance)
=============================================================================
