---------------------------- MODULE MCWorkloadApi ----------------------------
(* Instantiation of WorkloadApi for TLC: two worker threads, two names   *)
(* and two row ids, enough for two creates or two deletes to race.       *)
EXTENDS WorkloadApi, TLC

CONSTANTS w1, w2, a, b

MCWorkers == {w1, w2}
MCNames == {a, b}

(* Worker threads are interchangeable. *)
MCSymmetry == Permutations(MCWorkers)
=============================================================================
