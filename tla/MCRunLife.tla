----------------------------- MODULE MCRunLife -----------------------------
(* The runs of the RunLife checks. *)
EXTENDS RunLife, TLC

CONSTANTS w1, w2, o1, o2, k1

TwoWorkers == {w1, w2}
TwoOperators == {o1, o2}
Symmetry == Permutations(TwoWorkers) \cup Permutations(TwoOperators)

Canceled == [calls |-> 1, attempts |-> 3, faults |-> 1, cancels |-> TRUE, unwinds |-> 0]
Unwound == [calls |-> 2, attempts |-> 1, faults |-> 1, cancels |-> FALSE, unwinds |-> 2]
Resumed == [calls |-> 1, attempts |-> 3, faults |-> 2, cancels |-> FALSE, unwinds |-> 1]

MCPlans == {Canceled, Unwound, Resumed}
=============================================================================
