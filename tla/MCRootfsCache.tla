---------------------------- MODULE MCRootfsCache ----------------------------
(* Instantiation of RootfsCache for TLC: three tasks schedule workloads  *)
(* of two names, so two tasks can race on one name while a third works  *)
(* on the other.                                                         *)
EXTENDS RootfsCache, TLC

CONSTANTS t1, t2, t3, n1, n2

MCTasks == {t1, t2, t3}
MCNames == {n1, n2}

(* Tasks and names are interchangeable ids. *)
MCSymmetry == Permutations(MCTasks) \cup Permutations(MCNames)
=============================================================================
