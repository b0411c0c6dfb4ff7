--------------------------- MODULE MCHumanControl ---------------------------
(* Two sessions with two leases, and two calls at once.                    *)
EXTENDS HumanControl, TLC

Symmetry == Permutations(Sessions) \cup Permutations(Leases) \cup Permutations(Calls)
=============================================================================
