--------------------------- MODULE MCEventCount ---------------------------
(* A small instance of EventCount.                                         *)
EXTENDS EventCount
=============================================================================
