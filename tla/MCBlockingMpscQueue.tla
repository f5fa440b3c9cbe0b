----------------------- MODULE MCBlockingMpscQueue -----------------------
(* A small instance of BlockingMpscQueue: three items, one of which kills. *)
EXTENDS BlockingMpscQueue
=============================================================================
