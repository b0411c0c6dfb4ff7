------------------------ MODULE MCIdempotentWorker ------------------------
(* Three deliveries: two in one process, one in another.                   *)
EXTENDS IdempotentWorker, TLC

CONSTANTS r1, r2, r3, p1, p2

MCProcessOf == [r \in Runs |-> IF r = r3 THEN p2 ELSE p1]
Symmetry == Permutations({r1, r2}) \cup Permutations(Prints)
=============================================================================
