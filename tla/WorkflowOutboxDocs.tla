------------------------- MODULE WorkflowOutboxDocs -------------------------
(***************************************************************************)
(* What docs/architecture/PHASE_11_3_DURABLE_WORKFLOW_OUTBOX.md promises   *)
(* of the outbox and the code does not do. Each definition is checked by a *)
(* run that refutes it.                                                    *)
(***************************************************************************)
EXTENDS WorkflowOutbox

(* "Publisher crashes: lease expires; another publisher takes over": a     *)
(* claim nobody pursues does not outlive its lease while the event has     *)
(* attempts left. findDeliverable never returns a PROCESSING record, so    *)
(* nobody looks at it again. (findDeliverable)                             *)
AbandonedIsTakenOver ==
    \A k \in Keys :
        /\ Abandoned(k)
        /\ outbox[k].lease <= now
        /\ outbox[k].count < MaxAttempts
        ~> ~ Abandoned(k)

(* "Broker outage does not lose workflow intent": a record is DELIVERED    *)
(* only while a message of it is at the broker or on its way there.        *)
(* publishEvent awaits no broker confirm. (markDelivered)                  *)
DeliveredIsNotLost ==
    \A k \in Keys : outbox[k].status = "DELIVERED" =>
        \E m \in broker \cup UNION {channel[p] : p \in Publishers} : m.key = k
=============================================================================
