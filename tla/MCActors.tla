------------------------------ MODULE MCActors ------------------------------
(* Two actors, and one call to each of them: Sends both ways, one way, and *)
(* of an actor to itself.                                                  *)
EXTENDS Actors

CONSTANTS a, b, c, d

MCTarget == [call \in {c, d} |-> IF call = c THEN a ELSE b]

Sending(ofC, ofD) == [call \in {c, d} |-> IF call = c THEN ofC ELSE ofD]

MCSendings == {Sending(b, a), Sending(b, None), Sending(a, a)}
=============================================================================
