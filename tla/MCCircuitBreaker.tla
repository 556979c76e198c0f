---------------------------- MODULE MCCircuitBreaker ----------------------------
(* Model checking CircuitBreaker. *)
EXTENDS CircuitBreaker
===============================================================================
