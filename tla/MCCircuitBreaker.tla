-------------------------- MODULE MCCircuitBreaker --------------------------
(* Four calls at once, so that two late ones meet two probes.              *)
EXTENDS CircuitBreaker
=============================================================================
