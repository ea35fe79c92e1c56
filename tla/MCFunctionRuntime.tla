------------------------- MODULE MCFunctionRuntime -------------------------
(* Instantiation of FunctionRuntime for TLC: three instances share a pool *)
(* of two subnets, so the pool runs out while leases are held.            *)
EXTENDS FunctionRuntime, TLC

CONSTANTS i1, i2, i3, s1, s2

MCInstances == {i1, i2, i3}
MCSubnets == {s1, s2}

(* Instances and subnets are interchangeable ids. *)
MCSymmetry == Permutations(MCInstances) \cup Permutations(MCSubnets)
=============================================================================
