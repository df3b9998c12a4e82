------------------------------ MODULE Delivery ------------------------------
(***************************************************************************)
(* What the event bus promises a consumer and its operator, in the words   *)
(* of listDeadEvents (packages/events/src/index.ts): an event is pending   *)
(* until it is delivered, which is final, or quarantined, which an         *)
(* operator can see and revoke.                                            *)
(***************************************************************************)
CONSTANT Events

VARIABLE status   \* what listDeadEvents shows of an event, "pending" if nothing

Statuses == {"pending", "delivered", "quarantined", "released"}

Init == status = [e \in Events |-> "pending"]

\* The ack marker is written; a delivery that was under way when the event was
\* quarantined still counts.
Deliver(e) ==
    /\ status[e] # "delivered"
    /\ status' = [status EXCEPT ![e] = "delivered"]

Quarantine(e) ==
    /\ status[e] \in {"pending", "released"}
    /\ status' = [status EXCEPT ![e] = "quarantined"]

Release(e) ==
    /\ status[e] = "quarantined"
    /\ status' = [status EXCEPT ![e] = "released"]

Next == \E e \in Events : Deliver(e) \/ Quarantine(e) \/ Release(e)

Spec == Init /\ [][Next]_status
=============================================================================
