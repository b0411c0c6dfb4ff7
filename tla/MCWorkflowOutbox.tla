-------------------------- MODULE MCWorkflowOutbox --------------------------
(* Small instances of the workflow outbox for TLC.                         *)
EXTENDS WorkflowOutbox, TLC

Symmetry ==
    Permutations(Publishers) \cup Permutations(Producers) \cup Permutations(Keys)
=============================================================================
