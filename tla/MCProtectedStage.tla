--------------------------- MODULE MCProtectedStage ---------------------------
(* Two deliveries, each in a process of its own, of two copies of the job. *)
EXTENDS ProtectedStage

CONSTANTS r1, r2, p1, p2

MCProcessOf == [r \in Runs |-> IF r = r1 THEN p1 ELSE p2]
=============================================================================
