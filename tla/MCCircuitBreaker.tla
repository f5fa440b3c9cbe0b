------------------------- MODULE MCCircuitBreaker -------------------------
(* Small instances of CircuitBreaker, with and without a filter.           *)
EXTENDS CircuitBreaker
=============================================================================
