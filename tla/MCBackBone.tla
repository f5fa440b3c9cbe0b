----------------------------- MODULE MCBackBone -----------------------------
(* Two sources, with one message from the first one and one from a caller. *)
EXTENDS BackBone

CONSTANTS s1, s2, m1, m2

MCOrigin == [m \in {m1, m2} |-> IF m = m1 THEN s1 ELSE Caller]
=============================================================================
