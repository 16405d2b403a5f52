------------------------------ MODULE MCTimer ------------------------------
(* Two timers, so that a callback can delete, stop and restart the other one. *)
EXTENDS S31Timer, TLC

CONSTANTS t1, t2

Symmetry == Permutations({t1, t2})
=============================================================================
