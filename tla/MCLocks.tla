------------------------------ MODULE MCLocks ------------------------------
(* Three locks for two slots, so that the table runs full. *)
EXTENDS S31Locks, TLC

CONSTANTS t1, t2, l1, l2, l3

Symmetry == Permutations({t1, t2}) \cup Permutations({l1, l2, l3})
=============================================================================
