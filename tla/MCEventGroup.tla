---------------------------- MODULE MCEventGroup ----------------------------
(* Two waiters and one setter on a group of two bits. *)
EXTENDS S31EventGroup, TLC

CONSTANTS b1, b2

W(want, clear, all, t) == [want |-> want, clear |-> clear, all |-> all, timeout |-> t]

\* Waits that compete for b1, one that needs both bits, and a polling one.
MCWaits == {W({b1}, TRUE, FALSE, "finite"), W({b1, b2}, TRUE, TRUE, "forever"),
            W({b1, b2}, FALSE, FALSE, "zero")}

Symmetry == Permutations(Waiters)
=============================================================================
