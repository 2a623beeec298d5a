---------------------------- MODULE MCWorkerJobs ----------------------------
(* Three connections of one worker, interchangeable.                       *)
EXTENDS WorkerJobs, TLC

CONSTANTS c1, c2, c3

ThreeConns == {c1, c2, c3}
TwoConns == {c1, c2}
Interchangeable == Permutations(ThreeConns)
=============================================================================
