----------------------------- MODULE MCWorkflow -----------------------------
(* The workflows of the Workflow runs. *)
EXTENDS Workflow

CONSTANTS w1, w2

TwoWorkers == {w1, w2}

Plain == [effect |-> FALSE, recover |-> FALSE, sleeps |-> FALSE]
Sleep == [Plain EXCEPT !.sleeps = TRUE]
Charge == [Plain EXCEPT !.effect = TRUE, !.recover = TRUE]
Email == [Plain EXCEPT !.effect = TRUE]
ApprovedCharge == [Charge EXCEPT !.sleeps = TRUE]

MCPlans == {[steps |-> <<Charge, Sleep>>, maxFaults |-> 1, maxCalls |-> 2],
            [steps |-> <<ApprovedCharge>>, maxFaults |-> 1, maxCalls |-> 3],
            [steps |-> <<Charge>>, maxFaults |-> 2, maxCalls |-> 3],
            [steps |-> <<Email, Plain>>, maxFaults |-> 1, maxCalls |-> 2],
            [steps |-> <<Sleep, Charge>>, maxFaults |-> 0, maxCalls |-> 2]}
=============================================================================
