------------------------------ MODULE MCRunLock ------------------------------
(* RunLock for TLC: two processes with two heartbeats in flight each, and a *)
(* clock of a few ticks.                                                    *)
EXTENDS RunLock, TLC

CONSTANTS p1, p2, b1, b2

Symmetry == Permutations({p1, p2}) \cup Permutations({b1, b2})
=============================================================================
