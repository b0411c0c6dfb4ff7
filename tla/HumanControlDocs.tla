-------------------------- MODULE HumanControlDocs --------------------------
(* What the documents say of human control and the code does not do.       *)
EXTENDS HumanControl

(* Both fences let the agent continue: humanControlFenceService finds no   *)
(* live lease, humanReturnControlService no pending fence.                 *)
FencesPass == \A l \in Leases : ~ Live(l) /\ ~ Pending(l)

(* docs/architecture/phase23.md:129, "LEASE EXPIRY => FRESH EVALUATION":   *)
(* once control is over, by release or by time, the fences only let the    *)
(* agent continue after an evaluation made since.                          *)
ExpiryRequiresEvaluation ==
    FencesPass =>
       \A l \in Leases : Over(l) => lease[l].status \in Ends /\ EvaluatedSince(l)

=============================================================================
